---- MODULE Spec2Model ----
(***************************************************************************)
(* Model of the bar derivation pipeline of backend/jobs/derive.py          *)
(* (derive_bars and its helpers) and of the daily writer of                *)
(* scripts/derive_daily_from_minute.py, with the files they keep under     *)
(* derived/bars/{symbol}/{year} and the catalog row of the daily dataset;  *)
(* of the backtest service of backend/services/backtests.py with the job   *)
(* of backend/jobs/run_backtest.py, the catalog's runs table and the       *)
(* retention of backend/jobs/retention.py; and of the BFF's websocket      *)
(* manager, chart decimation and chart cache (bff/services).               *)
(*                                                                         *)
(* Time is counted in whole UTC minutes from 00:00 of the day before the   *)
(* reference day, so minute MinutesPerDay is 00:00 UTC of the reference    *)
(* day.  A tick's ts is the minute its ts_event floors to; the order of    *)
(* the rows of a file is their time order inside a minute.                 *)
(*                                                                         *)
(* Numbers that pandas keeps as floats are exact rationals <<n, d>> with   *)
(* d > 0 in lowest terms; NaN (and None/NA in a float column) is <<0, 0>>. *)
(***************************************************************************)
EXTENDS Integers, Sequences, FiniteSets, TLC

VARIABLES
    layout,            \* which raw layout is on disk: "stub", "legacy", "dirs"
    trades_files,      \* the trade tick files, in sorted filename order
    tbbo_files,        \* the quote tick files, in sorted filename order
    symbology,         \* None, or Some(id) of the symbol in symbology.json
    pandas_lenient,    \* how the installed dataframe library treats the two
                       \* calls of derive_bars it may refuse (see Refuses)
    disk,              \* the files of derived/bars/{symbol}/{year}, by name
    manifest_file,     \* bars_manifest.json: None, or Some(text)
    catalog,           \* the catalog's row of the daily dataset: None, or Some(row)
    now,               \* the wall clock
    last,              \* the last call: operation, arguments and outcome
    writer,            \* a derive_bars call whose writes are under way
    seen,              \* what another process last read: None, or <<file, content>>
    runs,              \* the catalog's runs table, by run_id
    idemp_cache,       \* _IDEMP_CACHE: Idempotency-Key -> stub run id
    calls,             \* the POST /backtests calls: position, body, key, response
    threads,           \* the background threads started and not yet run
    jobs,              \* the run ids run_backtest_and_persist is working on
    unique_hash,       \* whether the runs table refuses a second row of an input_hash
    artifacts,         \* data/backtests: run_id -> the files of the run's directory
    progress,          \* how far run_backtest_and_persist came with each run
    retention,         \* the candidates apply_deletions still has to go through
    active_connections,   \* WebSocketConnectionManager: the connection ids held
    connection_metadata,  \* connection id -> the run ids it subscribed to
    run_subscriptions,    \* run id -> the connection ids subscribed
    backend_connections,  \* run id -> the backend websocket kept for it
    backend_sockets,      \* every backend websocket opened, with its forwarding task
    routes,               \* the endpoint task of each client connection
    broken,               \* the clients whose socket no longer takes a send
    delivered,            \* how often a frame of a run's stream reached a client
    chart_request,        \* the bars and target_points of a chart request: None, or Some(args)
    chart_cache,          \* the CacheService: enabled, and the Redis keys with their values
    md5_hex               \* hashlib.md5(...).hexdigest() of each key text

inputs == <<layout, trades_files, tbbo_files, symbology, pandas_lenient>>
readers == <<writer, seen>>
run_store == <<artifacts, progress, retention>>
backtests == <<runs, idemp_cache, calls, threads, jobs, unique_hash, run_store>>
bff == <<active_connections, connection_metadata, run_subscriptions, backend_connections,
         backend_sockets, routes, broken, delivered>>
chart == <<chart_request, chart_cache, md5_hex>>
services == <<bff, chart>>
vars == <<layout, trades_files, tbbo_files, symbology, pandas_lenient,
          disk, manifest_file, catalog, now, last, writer, seen,
          runs, idemp_cache, calls, threads, jobs, unique_hash,
          artifacts, progress, retention,
          services>>

(***************************************************************************)
(* Bounds of the model.                                                    *)
(***************************************************************************)
MaxTradeRows == 2      \* trade rows over all trade files
MaxQuoteRows == 1      \* quote rows over all quote files
MaxPrice == 2          \* prices are 1..MaxPrice
MaxSize == 1           \* sizes are 0..MaxSize
MaxGrid == 4           \* longest gap-fill grid explored, in minutes
MaxClock == 1          \* the wall clock reads 0..MaxClock
MaxCalls == 3          \* POST /backtests calls
MaxJobs == 1           \* backtests run from the command line
MaxSockets == 2        \* backend websockets opened
MaxMessages == 1       \* messages a client sends after its connection subscribed
MaxFrames == 1         \* frames of a run's stream
MaxBars == 12          \* bars of a chart request
MaxTarget == 8         \* target_points of a chart request
DigestLen == 2         \* hexadecimal digits of a digest

\* ------------------------------------------------------------------------
\* Numbers
\* ------------------------------------------------------------------------
NaN == <<0, 0>>

IsNaN(x) == x[2] = 0

RECURSIVE GCD(_, _)
GCD(a, b) == IF b = 0 THEN a ELSE GCD(b, a % b)

Rat(n, d) == LET g == GCD(n, d) IN <<n \div g, d \div g>>

Num(n) == <<n, 1>>

RLe(x, y) == x[1] * y[2] <= y[1] * x[2]

RAdd(x, y) == Rat(x[1] * y[2] + y[1] * x[2], x[2] * y[2])

RScale(x, k) == Rat(x[1] * k, x[2])

RDiv(x, k) == Rat(x[1], x[2] * k)

\* pandas reducers skip NaN and give NaN for an all-NaN (or empty) input
NotNaNs(s) == SelectSeq(s, LAMBDA x : ~IsNaN(x))

RECURSIVE SeqSumRat(_)
SeqSumRat(s) == IF s = <<>> THEN Num(0) ELSE RAdd(Head(s), SeqSumRat(Tail(s)))

RECURSIVE SeqSumInt(_)
SeqSumInt(s) == IF s = <<>> THEN 0 ELSE Head(s) + SeqSumInt(Tail(s))

RECURSIVE SeqMax(_)
SeqMax(s) ==
    IF Len(s) = 1 THEN s[1]
    ELSE LET m == SeqMax(Tail(s)) IN IF RLe(m, Head(s)) THEN Head(s) ELSE m

RECURSIVE SeqMin(_)
SeqMin(s) ==
    IF Len(s) = 1 THEN s[1]
    ELSE LET m == SeqMin(Tail(s)) IN IF RLe(Head(s), m) THEN Head(s) ELSE m

First(s) == LET k == NotNaNs(s) IN IF k = <<>> THEN NaN ELSE k[1]
Last(s) == LET k == NotNaNs(s) IN IF k = <<>> THEN NaN ELSE k[Len(k)]
Max(s) == LET k == NotNaNs(s) IN IF k = <<>> THEN NaN ELSE SeqMax(k)
Min(s) == LET k == NotNaNs(s) IN IF k = <<>> THEN NaN ELSE SeqMin(k)
Sum(s) == SeqSumRat(NotNaNs(s))
Mean(s) == LET k == NotNaNs(s) IN IF k = <<>> THEN NaN ELSE RDiv(SeqSumRat(k), Len(k))

Map(s, F(_)) == [i \in 1..Len(s) |-> F(s[i])]

RECURSIVE SortedSeq(_)
SortedSeq(S) ==
    IF S = {} THEN <<>>
    ELSE LET m == CHOOSE x \in S : \A y \in S : x <= y
         IN <<m>> \o SortedSeq(S \ {m})

RECURSIVE Concat(_)
Concat(ss) == IF ss = <<>> THEN <<>> ELSE Head(ss) \o Concat(Tail(ss))

Range(s) == {s[i] : i \in 1..Len(s)}

None == <<>>
Some(x) == <<x>>

\* ------------------------------------------------------------------------
\* Calendar
\* ------------------------------------------------------------------------
MinutesPerDay == 1440

\* America/New_York is UTC-4 in daylight time and UTC-5 in standard time
NyUtcOffset == 240
NyStdOffset == 300

\* The modelled calendar is a short one: days 0..2 are summer days, daylight
\* time ends on day 3 at 02:00 local (06:00 UTC), day 4 is a winter day and
\* daylight time starts again on day 5 at 02:00 local (07:00 UTC).
DstEnd == 3 * MinutesPerDay + 6 * 60
DstStart == 5 * MinutesPerDay + 7 * 60
UtcOffset(t) == IF DstEnd <= t /\ t < DstStart THEN NyStdOffset ELSE NyUtcOffset

\* tz_convert("America/New_York"): the local wall clock, in minutes
TzConvert(t) == t - UtcOffset(t)

DayOf(t) == t \div MinutesPerDay

\* ------------------------------------------------------------------------
\* _read_symbology_id, _derive_trades_minutes, _derive_tbbo_minutes
\* ------------------------------------------------------------------------
InstId == 7

\* symbology is what symbology.json holds for the symbol: None (no file,
\* or no entry) or Some(id)
ReadSymbologyId(symbol) == symbology

\* one file's rows for one minute bin: first/max/min/last price, summed
\* size, count of prices, sum of price*size
TradesBin(rows, m) ==
    LET bin == SelectSeq(rows, LAMBDA r : r.ts = m)
        px == Map(bin, LAMBDA r : r.price)
        pv == Map(bin, LAMBDA r : IF IsNaN(r.price) THEN NaN ELSE RScale(r.price, r.size))
    IN  [ts |-> m, o |-> First(px), h |-> Max(px), l |-> Min(px), c |-> Last(px),
         v |-> SeqSumInt(Map(bin, LAMBDA r : r.size)),
         n |-> Len(NotNaNs(px)), pvs |-> Sum(pv)]

DeriveTradesFile(rows, instrument_id) ==
    LET df == SelectSeq(rows, LAMBDA r : r.inst = instrument_id)
        out == Map(SortedSeq({df[i].ts : i \in 1..Len(df)}), LAMBDA m : TradesBin(df, m))
    IN  SelectSeq(out, LAMBDA p : ~IsNaN(p.o) /\ ~IsNaN(p.h) /\ ~IsNaN(p.l) /\ ~IsNaN(p.c))

DeriveTradesMinutes(files, instrument_id) ==
    Concat(Map(files, LAMBDA f : DeriveTradesFile(f.rows, instrument_id)))

Mid(r) == IF IsNaN(r.bid_px) \/ IsNaN(r.ask_px) THEN NaN ELSE RDiv(RAdd(r.bid_px, r.ask_px), 2)

TbboBin(rows, m) ==
    LET mid == Map(SelectSeq(rows, LAMBDA r : r.ts = m), Mid)
    IN  [ts |-> m, mid_first |-> First(mid), mid_mean |-> Mean(mid)]

DeriveTbboFile(rows, instrument_id) ==
    LET df == SelectSeq(rows, LAMBDA r : r.inst = instrument_id)
        out == Map(SortedSeq({df[i].ts : i \in 1..Len(df)}), LAMBDA m : TbboBin(df, m))
    IN  SelectSeq(out, LAMBDA p : ~IsNaN(p.mid_first) /\ ~IsNaN(p.mid_mean))

DeriveTbboMinutes(files, instrument_id) ==
    Concat(Map(files, LAMBDA f : DeriveTbboFile(f.rows, instrument_id)))

\* ------------------------------------------------------------------------
\* derive_bars: cross-file consolidation and reconciliation
\* ------------------------------------------------------------------------
Keys(parts) == SortedSeq({parts[i].ts : i \in 1..Len(parts)})

\* groupby("ts").agg(o first, h max, l min, c last, v sum, n sum, pvs sum),
\* then vw = pvs / v where v > 0
ConsolidateTrades(parts) ==
    Map(Keys(parts), LAMBDA m :
        LET g == SelectSeq(parts, LAMBDA p : p.ts = m)
            v == SeqSumInt(Map(g, LAMBDA p : p.v))
            pvs == Sum(Map(g, LAMBDA p : p.pvs))
        IN  [t |-> m,
             o |-> First(Map(g, LAMBDA p : p.o)),
             h |-> Max(Map(g, LAMBDA p : p.h)),
             l |-> Min(Map(g, LAMBDA p : p.l)),
             c |-> Last(Map(g, LAMBDA p : p.c)),
             v |-> v,
             n |-> SeqSumInt(Map(g, LAMBDA p : p.n)),
             vw |-> IF v > 0 THEN RDiv(pvs, v) ELSE NaN])

\* groupby("ts").agg(mid_first first, mid_mean mean)
ConsolidateTbbo(parts) ==
    Map(Keys(parts), LAMBDA m :
        LET g == SelectSeq(parts, LAMBDA p : p.ts = m)
        IN  [t |-> m,
             mid_first |-> First(Map(g, LAMBDA p : p.mid_first)),
             mid_mean |-> Mean(Map(g, LAMBDA p : p.mid_mean))])

Lookup(rows, t) == SelectSeq(rows, LAMBDA r : r.t = t)

\* the provider column of one merged row
\* (Series.where(cond, other) keeps the value where cond holds and puts
\* other elsewhere)
Provider(has_trades, mid_first) ==
    LET p0 == "NA"
        p1 == IF ~has_trades THEN p0 ELSE "databento_trades"
    IN  IF has_trades \/ ~IsNaN(mid_first) THEN p1 ELSE "databento_tbbo_fill"

\* a merge that lets a quote mid take the minute from its trades
CombineRowQuoteFirst(t, trades_min, tbbo_min) ==
    LET tr == Lookup(trades_min, t)
        qu == Lookup(tbbo_min, t)
        has_trades == tr # <<>> /\ tr[1].v > 0 /\ qu = <<>>
        mid_first == IF qu = <<>> THEN NaN ELSE qu[1].mid_first
        mid_mean == IF qu = <<>> THEN NaN ELSE qu[1].mid_mean
    IN  [t |-> t,
         o |-> IF has_trades THEN tr[1].o ELSE mid_first,
         h |-> IF has_trades THEN tr[1].h ELSE mid_first,
         l |-> IF has_trades THEN tr[1].l ELSE mid_first,
         c |-> IF has_trades THEN tr[1].c ELSE mid_first,
         v |-> IF has_trades THEN tr[1].v ELSE 0,
         n |-> IF has_trades THEN tr[1].n ELSE 0,
         vw |-> IF has_trades THEN tr[1].vw ELSE mid_mean,
         provider |-> Provider(has_trades, mid_first),
         corr |-> FALSE]

\* one row of the outer merge on t, trades first and quote mid otherwise
CombineRow(t, trades_min, tbbo_min) ==
    LET tr == Lookup(trades_min, t)
        qu == Lookup(tbbo_min, t)
        has_trades == tr # <<>> /\ tr[1].v > 0
        mid_first == IF qu = <<>> THEN NaN ELSE qu[1].mid_first
        mid_mean == IF qu = <<>> THEN NaN ELSE qu[1].mid_mean
    IN  [t |-> t,
         o |-> IF has_trades THEN tr[1].o ELSE mid_first,
         h |-> IF has_trades THEN tr[1].h ELSE mid_first,
         l |-> IF has_trades THEN tr[1].l ELSE mid_first,
         c |-> IF has_trades THEN tr[1].c ELSE mid_first,
         v |-> IF has_trades THEN tr[1].v ELSE 0,
         n |-> IF has_trades THEN tr[1].n ELSE 0,
         vw |-> IF has_trades THEN tr[1].vw ELSE mid_mean,
         provider |-> Provider(has_trades, mid_first),
         corr |-> FALSE]

Combine(trades_min, tbbo_min) ==
    Map(SortedSeq({trades_min[i].t : i \in 1..Len(trades_min)}
                  \cup {tbbo_min[i].t : i \in 1..Len(tbbo_min)}),
        LAMBDA t : CombineRow(t, trades_min, tbbo_min))

\* ------------------------------------------------------------------------
\* derive_bars: carry-forward gap fill
\* ------------------------------------------------------------------------
MinT(bars) == CHOOSE t \in {bars[i].t : i \in 1..Len(bars)} : \A i \in 1..Len(bars) : t <= bars[i].t
MaxT(bars) == CHOOSE t \in {bars[i].t : i \in 1..Len(bars)} : \A i \in 1..Len(bars) : t >= bars[i].t

\* start_t and end_t of the grid (from_date T00:00:00Z, to_date T23:59:00Z)
GridStart(bars, from_date) ==
    IF from_date # None THEN from_date[1] * MinutesPerDay ELSE MinT(bars)
GridEnd(bars, to_date) ==
    IF to_date # None THEN to_date[1] * MinutesPerDay + (MinutesPerDay - 1) ELSE MaxT(bars)

\* a row of reindex(full_idx) that has no bar
EmptyRow(t) ==
    [t |-> t, o |-> NaN, h |-> NaN, l |-> NaN, c |-> NaN, v |-> 0, n |-> 0,
     vw |-> NaN, provider |-> "NA", corr |-> FALSE]

Reindex(bars, start_t, end_t) ==
    Map(SortedSeq(start_t..end_t),
        LAMBDA t : IF Lookup(bars, t) # <<>> THEN Lookup(bars, t)[1] ELSE EmptyRow(t))

\* a fill that carries the close of the first row of the grid
FfillFirst(rows, i) == rows[1].c

\* bars["c"].ffill() at row i
RECURSIVE Ffill(_, _)
Ffill(rows, i) ==
    IF i = 0 THEN NaN
    ELSE IF ~IsNaN(rows[i].c) THEN rows[i].c
    ELSE Ffill(rows, i - 1)

\* update(carry): the rows with a NaN open take the forward-filled close
\* where there is one, and v, n, provider and corr in any case
CarryRow(row, ffc) ==
    IF ~IsNaN(row.o) THEN row
    ELSE [t |-> row.t,
          o |-> IF IsNaN(ffc) THEN row.o ELSE ffc,
          h |-> IF IsNaN(ffc) THEN row.h ELSE ffc,
          l |-> IF IsNaN(ffc) THEN row.l ELSE ffc,
          c |-> IF IsNaN(ffc) THEN row.c ELSE ffc,
          v |-> 0, n |-> 0,
          vw |-> IF IsNaN(ffc) THEN row.vw ELSE ffc,
          provider |-> "carry_forward", corr |-> FALSE]

FillGaps(bars, from_date, to_date) ==
    LET rows == Reindex(bars, GridStart(bars, from_date), GridEnd(bars, to_date))
    IN  [i \in 1..Len(rows) |-> CarryRow(rows[i], Ffill(rows, i))]

GapFill(bars_min, fill_gaps, from_date, to_date) ==
    IF fill_gaps /\ bars_min # <<>> THEN FillGaps(bars_min, from_date, to_date)
    ELSE bars_min

\* ------------------------------------------------------------------------
\* derive_bars: session labels
\* ------------------------------------------------------------------------
\* a conversion that applies the summer offset all year
LocalMinuteOfDayFixed(t) == (t - NyUtcOffset) % MinutesPerDay

LocalMinuteOfDay(t) == TzConvert(t) % MinutesPerDay

Session(mins) ==
    LET pre == mins >= 4 * 60 /\ mins < 9 * 60 + 30
        regular == mins >= 9 * 60 + 30 /\ mins < 16 * 60
        post == mins >= 16 * 60 /\ mins < 20 * 60
        s0 == "off"
        s1 == IF pre THEN "pre" ELSE s0
        s2 == IF regular THEN "regular" ELSE s1
    IN  IF post THEN "post" ELSE s2

Rth(mins) == mins >= 9 * 60 + 30 /\ mins < 16 * 60

With(row, more) == [k \in DOMAIN row \cup DOMAIN more |-> IF k \in DOMAIN more THEN more[k] ELSE row[k]]

LabelSession(df) ==
    Map(df, LAMBDA r : With(r, [session |-> Session(LocalMinuteOfDay(r.t)),
                                 rth |-> Rth(LocalMinuteOfDay(r.t))]))

RthOnly(bars_min, rth_only) ==
    IF rth_only THEN SelectSeq(bars_min, LAMBDA r : r.rth) ELSE bars_min

\* ------------------------------------------------------------------------
\* derive_bars: resampling
\* ------------------------------------------------------------------------
TfMap == [x \in {"1Min", "5Min", "15Min", "1Hour", "1Day"} |->
             CASE x = "1Min" -> 1 [] x = "5Min" -> 5 [] x = "15Min" -> 15
               [] x = "1Hour" -> 60 [] x = "1Day" -> MinutesPerDay]

Floor(t, freq) == (t \div freq) * freq

Count(s, x) == Len(SelectSeq(s, LAMBDA y : y = x))

\* Series.mode() gives the most frequent values in sorted order
SessionOrder == <<"off", "post", "pre", "regular">>
Mode(s) == SelectSeq(SessionOrder,
                     LAMBDA x : Count(s, x) > 0 /\ \A y \in Range(s) : Count(s, y) <= Count(s, x))

\* an aggregation that keeps the volume of the bucket's first bar only
AggFirstVolume(g, bucket) ==
    LET vv == g[1].v
        vw_val == IF vv > 0
                  THEN RDiv(Sum(Map(g, LAMBDA r : IF IsNaN(r.vw) THEN NaN ELSE RScale(r.vw, r.v))), vv)
                  ELSE Mean(Map(g, LAMBDA r : r.vw))
        sessions == Map(g, LAMBDA r : r.session)
    IN  [t |-> bucket,
         o |-> g[1].o,
         h |-> Max(Map(g, LAMBDA r : r.h)),
         l |-> Min(Map(g, LAMBDA r : r.l)),
         c |-> g[Len(g)].c,
         v |-> vv,
         n |-> SeqSumInt(Map(g, LAMBDA r : r.n)),
         vw |-> vw_val,
         provider |-> IF vv > 0 THEN "databento_trades" ELSE "databento_tbbo_fill",
         corr |-> \E i \in 1..Len(g) : g[i].corr,
         session |-> IF Mode(sessions) # <<>> THEN Mode(sessions)[1] ELSE "NA",
         rth |-> \E i \in 1..Len(g) : g[i].rth]

Agg(g, bucket) ==
    LET vv == SeqSumInt(Map(g, LAMBDA r : r.v))
        vw_val == IF vv > 0
                  THEN RDiv(Sum(Map(g, LAMBDA r : IF IsNaN(r.vw) THEN NaN ELSE RScale(r.vw, r.v))), vv)
                  ELSE Mean(Map(g, LAMBDA r : r.vw))
        sessions == Map(g, LAMBDA r : r.session)
    IN  [t |-> bucket,
         o |-> g[1].o,
         h |-> Max(Map(g, LAMBDA r : r.h)),
         l |-> Min(Map(g, LAMBDA r : r.l)),
         c |-> g[Len(g)].c,
         v |-> vv,
         n |-> SeqSumInt(Map(g, LAMBDA r : r.n)),
         vw |-> vw_val,
         provider |-> IF vv > 0 THEN "databento_trades" ELSE "databento_tbbo_fill",
         corr |-> \E i \in 1..Len(g) : g[i].corr,
         session |-> IF Mode(sessions) # <<>> THEN Mode(sessions)[1] ELSE "NA",
         rth |-> \E i \in 1..Len(g) : g[i].rth]

Resample(bars_min, tf) ==
    IF tf = "1Min" THEN bars_min
    ELSE Map(SortedSeq({Floor(bars_min[i].t, TfMap[tf]) : i \in 1..Len(bars_min)}),
             LAMBDA b : Agg(SelectSeq(bars_min, LAMBDA r : Floor(r.t, TfMap[tf]) = b), b))

\* ------------------------------------------------------------------------
\* derive_bars: final schema
\* ------------------------------------------------------------------------
Symbol == "AAPL"
Year == 2023

BarId(symbol, t, tf) == <<symbol, t, tf>>

Finalize(bars_min, symbol, tf) ==
    Map(bars_min, LAMBDA r : With(r, [symbol |-> symbol, tf |-> tf, adj |-> "unadjusted",
                                       bar_id |-> BarId(symbol, r.t, tf)]))

\* the 1-minute series of derive_bars, from the selected files to the
\* session filter
MinuteBars(sel_trades, sel_tbbo, inst_id, fill_gaps, rth_only, from_date, to_date) ==
    LET trades_min == ConsolidateTrades(DeriveTradesMinutes(sel_trades, inst_id))
        tbbo_min == ConsolidateTbbo(DeriveTbboMinutes(sel_tbbo, inst_id))
        bars_min == Combine(trades_min, tbbo_min)
    IN  RthOnly(LabelSession(GapFill(bars_min, fill_gaps, from_date, to_date)), rth_only)

\* ------------------------------------------------------------------------
\* derive_bars: file selection, outputs, manifest
\* ------------------------------------------------------------------------
\* every modelled day lies in Year
YearOf(day) == Year

\* f.ymd is the date _parse_date_from_filename finds in the name, or None
InWindow(f, year, from_date, to_date) ==
    /\ f.ymd # None
    /\ YearOf(f.ymd[1]) = year
    /\ (from_date # None => f.ymd[1] >= from_date[1])
    /\ (to_date # None => f.ymd[1] <= to_date[1])

SelectFiles(files, year, from_date, to_date) ==
    IF layout = "legacy" THEN files
    ELSE SelectSeq(files, LAMBDA f : InWindow(f, year, from_date, to_date))

Formats == {"parquet", "csv", "jsonl"}

TfNorm(tf) ==
    CASE tf = "1Min" -> "1m" [] tf = "5Min" -> "5m" [] tf = "15Min" -> "15m"
      [] tf = "1Hour" -> "1h" [] tf = "1Day" -> "1d"

\* derived_dir / f"bars_{tf}.{out_format}"
OutPath(tf, out_format) == <<"bars", tf, out_format>>

ManifestName == "bars_manifest.json"

\* what a writer leaves in the file
FileBytes(out_format, bars) == [format |-> out_format, rows |-> bars]

Sha256(bytes) == <<"sha256", bytes>>

JsonDumps(obj) == <<"json", obj>>
JsonLoads(text) == text[2]

\* what an interrupted write leaves of a text, and whether json.loads
\* accepts a text
PartialText(text) == <<"partial", text[2]>>
Parses(text) == text[1] = "json"

\* what an interrupted write leaves of a bar file
PartialFile(bytes) == [bytes EXCEPT !.format = "partial"]

Exists(d, name) == name \in DOMAIN d

Write(d, name, bytes) == [k \in DOMAIN d \cup {name} |-> IF k = name THEN bytes ELSE d[k]]

\* strftime("%Y-%m-%d") of a bar time
DateStr(t) == <<"date", DayOf(t)>>

YearStart(year) == <<"date", year, "01-01">>
YearEnd(year) == <<"date", year, "12-31">>

MakeBarsStub(symbol, year) ==
    <<[ts |-> <<year, "01-01T00:00:00Z">>, o |-> Num(100), h |-> Num(101), l |-> Rat(199, 2),
       c |-> Rat(201, 2), v |-> 1000, symbol |-> symbol],
      [ts |-> <<year, "01-01T00:01:00Z">>, o |-> Num(101), h |-> Num(102), l |-> Rat(201, 2),
       c |-> Rat(203, 2), v |-> 1200, symbol |-> symbol]>>

MakeTbboStub(symbol, year) ==
    <<[ts |-> <<year, "01-01T00:00:00Z">>, bid_mean |-> Num(100), ask_mean |-> Rat(501, 5),
       spread_mean |-> Rat(1, 5), symbol |-> symbol],
      [ts |-> <<year, "01-01T00:01:00Z">>, bid_mean |-> Num(101), ask_mean |-> Rat(506, 5),
       spread_mean |-> Rat(1, 5), symbol |-> symbol]>>

\* the result of a call: what it returns and what it leaves on disk
Result(outcome, ret, read_ticks, d, m) ==
    [outcome |-> outcome, ret |-> ret, read_ticks |-> read_ticks, disk |-> d, manifest_file |-> m]

Raise(read_ticks) == Result("error", None, read_ticks, disk, manifest_file)

\* the stub fallback of derive_bars
DeriveStub(symbol, year, force) ==
    LET bars_path == <<"bars", "1m", "parquet">>
        tbbo_out_path == <<"tbbo", "1m", "parquet">>
        d1 == IF force \/ ~Exists(disk, bars_path)
              THEN Write(disk, bars_path, FileBytes("parquet", MakeBarsStub(symbol, year)))
              ELSE disk
        d2 == IF force \/ ~Exists(d1, tbbo_out_path)
              THEN Write(d1, tbbo_out_path, FileBytes("parquet", MakeTbboStub(symbol, year)))
              ELSE d1
        manifest ==
            [dataset_id |-> <<symbol, year, "1m">>,
             symbol |-> symbol,
             interval |-> "1m",
             from_date |-> YearStart(year),
             to_date |-> YearEnd(year),
             rebar_params |-> [interval |-> "1m"],
             input_hashes |-> <<>>,
             output_hashes |-> [k \in {bars_path, tbbo_out_path} |-> Sha256(d2[k])],
             calendar_version |-> "NAZDAQ-v1",
             tz |-> "America/New_York",
             created_at |-> now]
    IN  Result("ok", Some(manifest), FALSE, d2, Some(JsonDumps(manifest)))

\* The two calls of derive_bars whose outcome depends on the installed
\* dataframe library: _agg reads g["bucket"] although apply() is told
\* include_groups=False, and bars["bar_id"] is assigned the result of
\* DataFrame.apply on a frame without rows.  A library that refuses them
\* raises before anything is written.
Refuses(bars_min, bars, tf) ==
    /\ ~pandas_lenient
    /\ \/ tf # "1Min" /\ bars_min # <<>>
       \/ bars = <<>>

\* derive_bars on tick files (single-file or per-stream layout)
DeriveTicks(symbol, year, force, from_date, to_date, tf, out_format, fill_gaps, rth_only) ==
    LET sel_trades == SelectFiles(trades_files, year, from_date, to_date)
        sel_tbbo == SelectFiles(tbbo_files, year, from_date, to_date)
        inst_id == ReadSymbologyId(symbol)
        bars_min == MinuteBars(sel_trades, sel_tbbo, inst_id[1], fill_gaps, rth_only,
                               from_date, to_date)
        bars == Finalize(Resample(bars_min, tf), symbol, tf)
        out_path == OutPath(tf, out_format)
        d1 == Write(disk, out_path, FileBytes(out_format, bars))
        manifest ==
            [dataset_id |-> <<symbol, year, TfNorm(tf)>>,
             symbol |-> symbol,
             interval |-> TfNorm(tf),
             from_date |-> IF bars = <<>> THEN YearStart(year) ELSE DateStr(MinT(bars)),
             to_date |-> IF bars = <<>> THEN YearEnd(year) ELSE DateStr(MaxT(bars)),
             rebar_params |-> [interval |-> tf],
             input_hashes |-> [trades_files |-> Len(sel_trades), tbbo_files |-> Len(sel_tbbo)],
             output_hashes |-> [k \in {out_path} |-> Sha256(d1[k])],
             calendar_version |-> "NAZDAQ-v1",
             tz |-> "America/New_York",
             created_at |-> now]
    IN  IF sel_trades = <<>> THEN Raise(FALSE)
        ELSE IF inst_id = None THEN Raise(FALSE)
        ELSE IF DeriveTradesMinutes(sel_trades, inst_id[1]) = <<>> THEN Raise(TRUE)
        ELSE IF tf \notin DOMAIN TfMap THEN Raise(TRUE)
        ELSE IF Refuses(bars_min, bars, tf) THEN Raise(TRUE)
        ELSE IF out_format \notin Formats THEN Raise(TRUE)
        ELSE IF manifest_file # None /\ ~force /\ Parses(manifest_file[1])
             THEN Result("ok", Some(JsonLoads(manifest_file[1])), TRUE, d1, manifest_file)
        ELSE Result("ok", Some(manifest), TRUE, d1, Some(JsonDumps(manifest)))

\* ------------------------------------------------------------------------
\* scripts/derive_daily_from_minute.py
\* ------------------------------------------------------------------------
FilterRange(df, from_date, to_date) ==
    SelectSeq(df, LAMBDA r :
        /\ (from_date # None => r.t >= from_date[1] * MinutesPerDay)
        /\ (to_date # None => r.t <= to_date[1] * MinutesPerDay + (MinutesPerDay - 1)))

NyDate(t) == TzConvert(t) \div MinutesPerDay

\* a comparison with a null provider is null, and filter() drops the row
DailySelect(df, rth_only, drop_carry) ==
    SelectSeq(df, LAMBDA r :
        /\ (rth_only => r.rth)
        /\ (drop_carry => r.provider \notin {"carry_forward", "NA"}))

DailyProvider(g) ==
    IF \E i \in 1..Len(g) : g[i].provider = "trades" THEN "trades"
    ELSE IF \E i \in 1..Len(g) : g[i].provider = "tbbo" THEN "tbbo"
    ELSE "unknown"

\* one group of group_by("ny_date"), with the columns added after it
DailyRow(g) ==
    LET v == SeqSumInt(Map(g, LAMBDA r : r.v))
        vw_num == Sum(Map(g, LAMBDA r : IF IsNaN(r.vw) THEN NaN ELSE RScale(r.vw, r.v)))
        vw_mean == Mean(Map(g, LAMBDA r : r.vw))
    IN  [t |-> Floor(MinT(g), MinutesPerDay),
         o |-> g[1].o,
         h |-> Max(Map(g, LAMBDA r : r.h)),
         l |-> Min(Map(g, LAMBDA r : r.l)),
         c |-> g[Len(g)].c,
         v |-> v,
         n |-> SeqSumInt(Map(g, LAMBDA r : r.n)),
         vw |-> IF v > 0 THEN RDiv(vw_num, v) ELSE vw_mean,
         corr |-> \E i \in 1..Len(g) : g[i].corr,
         provider |-> DailyProvider(g),
         session |-> "regular",
         rth |-> TRUE,
         adj |-> "unadjusted",
         tf |-> "1Day"]

\* the daily rows, one per New York date; group_by leaves their order open
\* and sort("t") settles it only between different t
AggregateDailyFromMinute(df, rth_only, drop_carry) ==
    LET sel == DailySelect(df, rth_only, drop_carry)
        dates == {NyDate(sel[i].t) : i \in 1..Len(sel)}
        row == [d \in dates |-> DailyRow(SelectSeq(sel, LAMBDA r : NyDate(r.t) = d))]
        orders == {s \in [1..Cardinality(dates) -> dates] :
                      /\ Range(s) = dates
                      /\ \A i \in 1..(Len(s) - 1) : row[s[i]].t <= row[s[i + 1]].t}
    IN  {[i \in 1..Cardinality(dates) |-> row[s[i]]] : s \in orders}

EmptyDict == [k \in {} |-> None]

WriteDaily(symbol, year, daily, force) ==
    LET rows == Map(daily, LAMBDA r : With(r, [symbol |-> symbol,
                                                bar_id |-> BarId(symbol, r.t, "1Day")]))
        out_path == <<"bars", "1Day", "parquet">>
        d1 == Write(disk, out_path, FileBytes("parquet", rows))
        manifest ==
            [dataset_id |-> <<symbol, year, "1d">>,
             symbol |-> symbol,
             interval |-> "1d",
             from_date |-> DateStr(MinT(rows)),
             to_date |-> DateStr(MaxT(rows)),
             products |-> <<"TRADES", "TBBO">>,
             calendar_version |-> "v1",
             tz |-> "America/New_York",
             created_at |-> now]
    IN  IF Exists(disk, out_path) /\ ~force
        THEN Result("ok",
                    Some(IF manifest_file # None THEN JsonLoads(manifest_file[1]) ELSE EmptyDict),
                    FALSE, d1, manifest_file)
        ELSE Result("ok", Some(manifest), FALSE, d1, Some(JsonDumps(manifest)))

Skip == Result("skip", None, FALSE, disk, manifest_file)

\* dict.get(key, default)
Get(dict, key, default) == IF key \in DOMAIN dict THEN dict[key] ELSE default

\* the row main() upserts for the daily dataset after _write_daily
UpsertDataset(symbol, year, r) ==
    LET manifest == r.ret[1]
        out_path == <<"bars", "1Day", "parquet">>
    IN  [dataset_id |-> <<symbol, year, "1d">>,
         symbol |-> symbol,
         from_date |-> Get(manifest, "from_date", None),
         to_date |-> Get(manifest, "to_date", None),
         products |-> <<"TRADES", "TBBO">>,
         calendar_version |-> Get(manifest, "calendar_version", "v1"),
         tz |-> Get(manifest, "tz", "America/New_York"),
         raw_dbn |-> <<>>,
         bars_parquet |-> <<out_path>>,
         bars_manifest_path |-> ManifestName,
         generated_at |-> Get(manifest, "created_at", now),
         size_bytes |-> <<"size", r.disk[out_path]>>,
         status |-> "READY"]

\* ------------------------------------------------------------------------
\* Operations
\* ------------------------------------------------------------------------
Call(op, args, r, cat) ==
    /\ disk' = r.disk
    /\ manifest_file' = r.manifest_file
    /\ catalog' = cat
    /\ last' = [op |-> op, args |-> args, outcome |-> r.outcome, ret |-> r.ret,
                read_ticks |-> r.read_ticks]
    /\ UNCHANGED <<inputs, now, readers, backtests, services>>

\* the gap-fill grid of the call has at most MaxGrid minutes
GridInBound(from_date, to_date, fill_gaps) ==
    fill_gaps /\ layout # "stub" /\ symbology # None =>
        LET bars_min == MinuteBars(SelectFiles(trades_files, Year, from_date, to_date),
                                   SelectFiles(tbbo_files, Year, from_date, to_date),
                                   symbology[1], FALSE, FALSE, from_date, to_date)
        IN  bars_min # <<>> =>
                GridEnd(bars_min, to_date) - GridStart(bars_min, from_date) < MaxGrid

DeriveBars(force, from_date, to_date, tf, out_format, fill_gaps, rth_only) ==
    /\ GridInBound(from_date, to_date, fill_gaps)
    /\ Call("derive_bars",
            [force |-> force, from_date |-> from_date, to_date |-> to_date, tf |-> tf,
             out_format |-> out_format, fill_gaps |-> fill_gaps, rth_only |-> rth_only],
            IF layout = "stub" THEN DeriveStub(Symbol, Year, force)
            ELSE DeriveTicks(Symbol, Year, force, from_date, to_date, tf, out_format,
                             fill_gaps, rth_only),
            catalog)

\* one pass of main() of derive_daily_from_minute for the symbol and year
DeriveDaily(force, from_date, to_date, fill_gaps, rth_only) ==
    LET minute_path == <<"bars", "1Min", "parquet">>
        args == [force |-> force, from_date |-> from_date, to_date |-> to_date,
                 fill_gaps |-> fill_gaps, rth_only |-> rth_only]
        df == FilterRange(disk[minute_path].rows, from_date, to_date)
    IN  IF ~Exists(disk, minute_path) \/ df = <<>>
            \/ AggregateDailyFromMinute(df, rth_only, ~fill_gaps) = {<<>>}
        THEN Call("derive_daily", args, Skip, catalog)
        ELSE \E daily \in AggregateDailyFromMinute(df, rth_only, ~fill_gaps) :
                LET r == WriteDaily(Symbol, Year, daily, force)
                IN  Call("derive_daily", args, r, Some(UpsertDataset(Symbol, Year, r)))

Tick ==
    /\ now < MaxClock
    /\ now' = now + 1
    /\ UNCHANGED <<inputs, disk, manifest_file, catalog, last, readers, backtests, services>>

\* ------------------------------------------------------------------------
\* Inputs
\* ------------------------------------------------------------------------
\* the minutes ticks fall in: the four minutes around 00:00 UTC of the
\* reference day (two before, two from it on), and 13:30 UTC of it
\* (09:30 in New York)
Minutes == ((MinutesPerDay - 2)..(MinutesPerDay + 1))
           \cup {MinutesPerDay + NyUtcOffset + 9 * 60 + 30}

Prices == {Num(p) : p \in 1..MaxPrice}

TradeRows == [ts : Minutes, price : Prices, size : 0..MaxSize, inst : {InstId}]
QuoteRows == [ts : Minutes, bid_px : Prices, ask_px : {Num(MaxPrice)}, inst : {InstId}]

\* row sequences of length k in time order
SortedRows(S, k) == {s \in [1..k -> S] : \A i \in 1..(k - 1) : s[i].ts <= s[i + 1].ts}

File(day, rows) == [ymd |-> Some(day), rows |-> rows]

\* no trade file, one, or one for each of the two days, holding at most
\* max rows between them
TradeFileLists(S, max) ==
    {<<>>}
    \cup {<<File(0, r)>> : r \in UNION {SortedRows(S, k) : k \in 0..max}}
    \cup UNION {{<<File(0, r1), File(1, r2)>> :
                     r1 \in SortedRows(S, k[1]), r2 \in SortedRows(S, k[2])} :
                  k \in {x \in (0..max) \X (0..max) : x[1] + x[2] <= max}}

\* no quote file, or one of at most max rows
QuoteFileLists(S, max) ==
    {<<>>} \cup {<<File(0, r)>> : r \in UNION {SortedRows(S, k) : k \in 0..max}}

NoCall == [op |-> "none", args |-> None, outcome |-> "none", ret |-> None, read_ticks |-> FALSE]

\* no write under way
Idle == [pc |-> "idle"]

\* an empty catalog, and no call of the backtest service yet
NewCall == [pc |-> "new", body |-> None, key |-> None, resp |-> None]
RunIds == ({"run"} \X (1..MaxCalls)) \cup ({"cli"} \X (1..MaxJobs))
NoPass == [cands |-> <<>>, removed |-> None]
NoBacktests ==
    /\ runs = <<>>
    /\ idemp_cache = <<>>
    /\ calls = [c \in 1..MaxCalls |-> NewCall]
    /\ threads = {}
    /\ jobs = {}
    /\ artifacts = EmptyDict
    /\ progress = [r \in RunIds |-> "new"]
    /\ retention = NoPass

\* the BFF as constructed: a manager with no connection
Clients == {"c1", "c2"}
StreamRuns == {"r1", "r2"}
Frames == 1..MaxFrames
NewRoute == [pc |-> "new", run |-> None, msgs |-> 0, returned |-> FALSE]
NoSockets ==
    /\ active_connections = {}
    /\ connection_metadata = EmptyDict
    /\ run_subscriptions = EmptyDict
    /\ backend_connections = EmptyDict
    /\ backend_sockets = <<>>
    /\ routes = [c \in Clients |-> NewRoute]
    /\ broken = {}
    /\ delivered = [k \in Clients \X StreamRuns \X Frames |-> 0]

\* no chart request, and a cache that was never used
NoChart ==
    /\ chart_request = None
    /\ chart_cache = [enabled |-> FALSE, store |-> EmptyDict]
    /\ md5_hex = EmptyDict

NoServices ==
    /\ NoSockets
    /\ NoChart

InitState ==
    /\ disk = [k \in {} |-> None]
    /\ manifest_file = None
    /\ catalog = None
    /\ now = 0
    /\ last = NoCall
    /\ writer = Idle
    /\ seen = None
    /\ NoBacktests
    /\ unique_hash = TRUE
    /\ NoServices

\* one raw layout with its files; on "stub" a stream directory is missing
\* (the quote directory, and with no trade file possibly the trade directory)
\* and so are the two old single files
Layouts(trades, tbbo) ==
    \/ /\ layout = "dirs"
       /\ trades_files \in trades
       /\ tbbo_files \in tbbo
    \/ /\ layout = "legacy"
       /\ trades_files \in {f \in trades : Len(f) = 1}
       /\ tbbo_files \in {f \in tbbo : Len(f) = 1}
    \/ /\ layout = "stub"
       /\ trades_files \in trades
       /\ tbbo_files = <<>>

\* ------------------------------------------------------------------------
\* The derivation pipeline on bounded inputs: one derive_bars call on an
\* empty output directory, then one pass of the daily script.  A library
\* that refuses a call writes nothing, so the files written here are those
\* of a lenient one.
\* ------------------------------------------------------------------------
InitBars ==
    /\ Layouts(TradeFileLists(TradeRows, MaxTradeRows), QuoteFileLists(QuoteRows, MaxQuoteRows))
    /\ layout # "stub"
    /\ symbology = Some(InstId)
    /\ pandas_lenient = TRUE
    /\ InitState

CallTfs == {"1Min", "5Min", "1Day"}
FromArgs == {None, Some(1)}
ToArgs == {None, Some(0)}

FirstCall ==
    /\ last.op = "none"
    /\ \E from_date \in FromArgs, to_date \in ToArgs, tf \in CallTfs,
          fill_gaps \in BOOLEAN, rth_only \in BOOLEAN :
         DeriveBars(TRUE, from_date, to_date, tf, "parquet", fill_gaps, rth_only)

DailyCall ==
    /\ last.op = "derive_bars"
    /\ \E fill_gaps \in BOOLEAN, rth_only \in BOOLEAN :
         DeriveDaily(TRUE, None, None, fill_gaps, rth_only)

NextBars == FirstCall \/ DailyCall

SpecBars == InitBars /\ [][NextBars]_vars

\* ------------------------------------------------------------------------
\* The output directory over any sequence of calls
\* ------------------------------------------------------------------------
Init ==
    /\ Layouts(TradeFileLists([ts : Minutes, price : {Num(1)}, size : {1}, inst : {InstId}], 1),
               QuoteFileLists([ts : Minutes, bid_px : {Num(1)}, ask_px : {Num(MaxPrice)},
                               inst : {InstId}], 1))
    /\ symbology \in {None, Some(InstId)}
    /\ pandas_lenient \in BOOLEAN
    /\ InitState

DeriveBarsCall ==
    \E force \in BOOLEAN, tf \in {"1Min", "5Min"}, fill_gaps \in BOOLEAN :
        DeriveBars(force, None, None, tf, "parquet", fill_gaps, FALSE)

DeriveDailyCall ==
    \E force \in BOOLEAN : DeriveDaily(force, None, None, FALSE, FALSE)

Next == DeriveBarsCall \/ DeriveDailyCall \/ Tick

Spec == Init /\ [][Next]_vars

\* ------------------------------------------------------------------------
\* What a derive_bars call was given and what it left
\* ------------------------------------------------------------------------
Derived == last.op = "derive_bars" /\ last.outcome = "ok"
Derived1Min == Derived /\ last.args.tf = "1Min"

\* the rows of the bar file the call wrote
Written == disk[OutPath(last.args.tf, last.args.out_format)].rows
RowsAt(m) == SelectSeq(Written, LAMBDA r : r.t = m)

\* the ticks of the files the call selected, in file order
TicksOf(files) ==
    Concat(Map(SelectFiles(files, Year, last.args.from_date, last.args.to_date),
               LAMBDA f : f.rows))
TradesAt(m) == SelectSeq(TicksOf(trades_files), LAMBDA r : r.ts = m)
QuotesAt(m) == SelectSeq(TicksOf(tbbo_files), LAMBDA r : r.ts = m)

TradeVolume(m) == SeqSumInt(Map(TradesAt(m), LAMBDA r : r.size))
TradeValue(m) == SeqSumRat(Map(TradesAt(m), LAMBDA r : RScale(r.price, r.size)))
HasMid(m) == QuotesAt(m) # <<>>
MidOf(m) == RDiv(RAdd(QuotesAt(m)[1].bid_px, QuotesAt(m)[1].ask_px), 2)
MidMeanOf(m) ==
    RDiv(SeqSumRat(Map(QuotesAt(m), LAMBDA q : RDiv(RAdd(q.bid_px, q.ask_px), 2))),
         Len(QuotesAt(m)))

\* the minute has a bar with a price: traded volume, or a quote mid
Observed(m) == TradeVolume(m) > 0 \/ HasMid(m)
\* the minute has a row in the merged series
Merged(m) == TradesAt(m) # <<>> \/ HasMid(m)
CloseOf(m) == IF TradeVolume(m) > 0 THEN TradesAt(m)[Len(TradesAt(m))].price ELSE MidOf(m)

\* the gap-fill grid of the call
GridFrom ==
    IF last.args.from_date # None THEN last.args.from_date[1] * MinutesPerDay
    ELSE CHOOSE m \in Minutes : Merged(m) /\ \A k \in Minutes : Merged(k) => m <= k
GridTo ==
    IF last.args.to_date # None THEN last.args.to_date[1] * MinutesPerDay + MinutesPerDay - 1
    ELSE CHOOSE m \in Minutes : Merged(m) /\ \A k \in Minutes : Merged(k) => m >= k
Grid == GridFrom..GridTo

\* comparisons of prices, false on a missing one
Le(x, y) == ~IsNaN(x) /\ ~IsNaN(y) /\ RLe(x, y)

\* ------------------------------------------------------------------------
\* Reconciliation (SpecBars)
\* ------------------------------------------------------------------------
\* C5: after a 1Min derivation, a minute whose selected trade ticks have
\* volume > 0 has only rows carrying the trades' first, highest, lowest and
\* last price, their volume, vwap = sum(price * size) / volume and the
\* provider databento_trades (the code's label for trades), with a quote
\* mid or without; and it has exactly one row when neither the gap-fill
\* grid nor the session filter is in effect.
C5_TradesTakePrecedence ==
    Derived1Min =>
        \A m \in Minutes : TradeVolume(m) > 0 =>
            /\ ~last.args.fill_gaps /\ ~last.args.rth_only => Len(RowsAt(m)) = 1
            /\ \A i \in 1..Len(RowsAt(m)) :
                 LET r == RowsAt(m)[i]
                     px == Map(TradesAt(m), LAMBDA x : x.price)
                 IN  /\ r.o = px[1]
                     /\ r.c = px[Len(px)]
                     /\ \A j \in 1..Len(px) : RLe(r.l, px[j]) /\ RLe(px[j], r.h)
                     /\ r.h \in Range(px) /\ r.l \in Range(px)
                     /\ r.v = TradeVolume(m)
                     /\ r.vw = RDiv(TradeValue(m), TradeVolume(m))
                     /\ r.provider = "databento_trades"

\* a traded minute that also has a quote mid, different from its open
C5_Witness ==
    /\ Derived1Min
    /\ \E m \in Minutes :
         /\ TradeVolume(m) > 0
         /\ HasMid(m)
         /\ Len(TradesAt(m)) = 2
         /\ RowsAt(m) # <<>>
         /\ RowsAt(m)[1].o # MidOf(m)
         /\ RowsAt(m)[1].o # RowsAt(m)[1].c

\* C6: after a 1Min derivation, a minute with zero trade volume and a
\* quote mid has only rows with open = high = low = close = the first mid,
\* volume 0, vwap = the mean mid and provider databento_tbbo_fill.
C6_QuoteFallback ==
    Derived1Min =>
        \A m \in Minutes : TradeVolume(m) = 0 /\ HasMid(m) =>
            \A i \in 1..Len(RowsAt(m)) :
                LET r == RowsAt(m)[i]
                IN  /\ r.o = MidOf(m) /\ r.h = MidOf(m) /\ r.l = MidOf(m) /\ r.c = MidOf(m)
                    /\ r.v = 0
                    /\ r.vw = MidMeanOf(m)
                    /\ r.provider = "databento_tbbo_fill"

\* the same without the provider: the prices and volume of the fallback
C6_QuoteFallbackPrices ==
    Derived1Min =>
        \A m \in Minutes : TradeVolume(m) = 0 /\ HasMid(m) =>
            \A i \in 1..Len(RowsAt(m)) :
                LET r == RowsAt(m)[i]
                IN  /\ r.o = MidOf(m) /\ r.h = MidOf(m) /\ r.l = MidOf(m) /\ r.c = MidOf(m)
                    /\ r.v = 0
                    /\ r.vw = MidMeanOf(m)

\* a quote-only minute whose row has no provider
C6_Witness ==
    /\ Derived1Min
    /\ \E m \in Minutes :
         /\ TradeVolume(m) = 0 /\ HasMid(m)
         /\ RowsAt(m) # <<>>
         /\ RowsAt(m)[1].provider = "NA"

\* C7: after a 1Min derivation without gap fill, a minute with zero trade
\* volume and no quote mid has no row, zero-size ticks or not.
C7_NoDataNoRow ==
    Derived1Min /\ ~last.args.fill_gaps =>
        \A m \in Minutes : TradeVolume(m) = 0 /\ ~HasMid(m) => RowsAt(m) = <<>>

\* a minute of zero-size ticks only, written as a row without prices
C7_Witness ==
    /\ Derived1Min /\ ~last.args.fill_gaps
    /\ \E m \in Minutes :
         /\ TradesAt(m) # <<>> /\ TradeVolume(m) = 0 /\ ~HasMid(m)
         /\ RowsAt(m) # <<>>
         /\ IsNaN(RowsAt(m)[1].o)
         /\ RowsAt(m)[1].provider = "databento_tbbo_fill"

\* ------------------------------------------------------------------------
\* Gap fill (SpecBars)
\* ------------------------------------------------------------------------
\* the nearest observed minute of S before m
Preceding(S, m) ==
    CHOOSE k \in S : /\ k < m /\ Observed(k)
                     /\ \A j \in S : j < m /\ Observed(j) => j <= k

\* the row of a filled minute: flat at price px, no volume, carried
Carried(r, px) ==
    /\ r.o = px /\ r.h = px /\ r.l = px /\ r.c = px /\ r.vw = px
    /\ r.v = 0 /\ r.n = 0
    /\ r.provider = "carry_forward"

C9_NothingBeforeFirstObservation ==
    Derived1Min /\ last.args.fill_gaps =>
        \A m \in Grid :
            (\A k \in Grid : k <= m => ~Observed(k)) => RowsAt(m) = <<>>

\* an empty grid minute before the first observation, written as a
\* carry_forward row without prices
C9_Witness ==
    /\ Derived1Min /\ last.args.fill_gaps
    /\ \E m \in Grid :
         /\ \A k \in Grid : k <= m => ~Merged(k)
         /\ RowsAt(m) # <<>>
         /\ RowsAt(m)[1].provider = "carry_forward"
         /\ IsNaN(RowsAt(m)[1].o)

\* ------------------------------------------------------------------------
\* Price order (SpecBars)
\* ------------------------------------------------------------------------
BarFiles == {p \in DOMAIN disk : p[1] = "bars"}

Ordered(r) == Le(r.l, r.o) /\ Le(r.o, r.h) /\ Le(r.l, r.c) /\ Le(r.c, r.h)

\* C10: in every bar file on disk, at every timeframe, a row with volume
\* > 0 has low <= open <= high and low <= close <= high.
C10_PriceOrder ==
    \A p \in BarFiles :
        \A i \in 1..Len(disk[p].rows) :
            disk[p].rows[i].v > 0 => Ordered(disk[p].rows[i])

\* a resampled bar with volume whose open is missing
C10_Witness ==
    /\ Derived /\ last.args.tf = "5Min"
    /\ \E i \in 1..Len(Written) : Written[i].v > 0 /\ IsNaN(Written[i].o)

\* the 1-minute files keep the order
C10_PriceOrder1Min ==
    \A p \in BarFiles :
        p[2] = "1Min" =>
            \A i \in 1..Len(disk[p].rows) :
                disk[p].rows[i].v > 0 => Ordered(disk[p].rows[i])

\* ------------------------------------------------------------------------
\* Manifest and re-runs (Spec)
\* ------------------------------------------------------------------------
\* this step is a call that returned normally
Returned(op) == now' = now /\ last'.op = op /\ last'.outcome = "ok"

\* this step and the call before it are derive_bars calls that returned
Rerun ==
    /\ last.op = "derive_bars" /\ last.outcome = "ok"
    /\ Returned("derive_bars")

OnDisk == JsonLoads(manifest_file[1])

OutputHashesOf(m) == IF "output_hashes" \in DOMAIN m THEN Some(m.output_hashes) ELSE None

\* C1: a derive_bars call with force=false that repeats the call before it,
\* argument for argument, returns the manifest that call returned and
\* leaves the manifest file as it was, on every layout.
C1_IdempotentRerun ==
    [][Rerun /\ last'.args = last.args /\ ~last.args.force =>
           last'.ret = last.ret /\ manifest_file' = manifest_file]_vars

\* the same on the two layouts with tick files
C1_IdempotentRerunOnTicks ==
    [][layout # "stub" /\ Rerun /\ last'.args = last.args /\ ~last.args.force =>
           last'.ret = last.ret /\ manifest_file' = manifest_file]_vars

\* a non-forced call on the stub layout that returned a manifest stamped
\* later than the one the call before it wrote
C1_Witness ==
    /\ layout = "stub"
    /\ Derived /\ ~last.args.force
    /\ last.ret[1].created_at > 0

\* C2: a derive_bars call with force=false that finds a manifest of its
\* timeframe returns it, reads no tick file and leaves every file of the directory as it
\* was; a daily pass with force=false that finds its output leaves every
\* file as it was.
C2_NoRederivation ==
    [][/\ Returned("derive_bars") /\ ~last'.args.force /\ manifest_file # None
              /\ OnDisk.interval = TfNorm(last'.args.tf) =>
           /\ last'.ret = Some(OnDisk)
           /\ ~last'.read_ticks
           /\ disk' = disk
       /\ Returned("derive_daily") /\ ~last'.args.force
              /\ Exists(disk, OutPath("1Day", "parquet")) =>
           disk' = disk]_vars

\* a non-forced call that found the manifest of its timeframe, read the
\* tick files and left a bar file that the manifest's hash does not match
C2_Witness ==
    /\ layout # "stub"
    /\ Derived /\ ~last.args.force
    /\ last.read_ticks
    /\ last.ret[1].interval = TfNorm(last.args.tf)
    /\ last.ret[1].output_hashes[OutPath(last.args.tf, last.args.out_format)]
           # Sha256(disk[OutPath(last.args.tf, last.args.out_format)])

\* the interval and the bar file of the call of this step
StepInterval == IF last'.op = "derive_daily" THEN "1d" ELSE TfNorm(last'.args.tf)
StepPath ==
    IF last'.op = "derive_daily" THEN OutPath("1Day", "parquet")
    ELSE OutPath(last'.args.tf, last'.args.out_format)

\* C3: on tick files, a derivation of one timeframe that finds the manifest
\* of another leaves that manifest as it is and returns one of its own,
\* with its interval, its dataset_id and the hash of its bar file.
C3_ManifestPerTimeframe ==
    [][/\ layout # "stub"
       /\ Returned("derive_bars") \/ Returned("derive_daily")
       /\ manifest_file # None
       /\ OnDisk.interval # StepInterval
       => /\ manifest_file' = manifest_file
          /\ last'.ret[1].interval = StepInterval
          /\ last'.ret[1].dataset_id = <<Symbol, Year, StepInterval>>
          /\ OutputHashesOf(last'.ret[1]) = Some([k \in {StepPath} |-> Sha256(disk'[StepPath])])]_vars

\* two bar files of different timeframes under the one manifest
C3_Witness ==
    /\ Exists(disk, OutPath("1Min", "parquet"))
    /\ Exists(disk, OutPath("1Day", "parquet"))
    /\ manifest_file # None
    /\ OnDisk.interval = "1d"

SameOptions(a, b) == [a EXCEPT !.force = FALSE] = [b EXCEPT !.force = FALSE]

\* C4: a derive_bars call with the options of the call before it returns
\* the output_hashes that call returned, forced or not; two such forced
\* calls return manifests that differ in created_at at most.
C4_SameHashes ==
    [][Rerun /\ SameOptions(last.args, last'.args) =>
           /\ OutputHashesOf(last'.ret[1]) = OutputHashesOf(last.ret[1])
           /\ last.args.force /\ last'.args.force =>
                  [last'.ret[1] EXCEPT !.created_at = 0] = [last.ret[1] EXCEPT !.created_at = 0]]_vars

\* the same between two forced calls
C4_SameHashesForced ==
    [][Rerun /\ SameOptions(last.args, last'.args) /\ last.args.force /\ last'.args.force =>
           [last'.ret[1] EXCEPT !.created_at = 0] = [last.ret[1] EXCEPT !.created_at = 0]]_vars

\* a call whose returned hashes are not those of the bar file it wrote
C4_Witness ==
    /\ layout # "stub"
    /\ Derived
    /\ LET p == OutPath(last.args.tf, last.args.out_format)
       IN  OutputHashesOf(last.ret[1]) # Some([k \in {p} |-> Sha256(disk[p])])

\* ------------------------------------------------------------------------
\* Order and keys of the bar files (SpecBars)
\* ------------------------------------------------------------------------
Key(r) == <<r.symbol, r.t, r.tf>>

SortedUnique(rows) ==
    /\ \A i \in 1..(Len(rows) - 1) : rows[i].t <= rows[i + 1].t
    /\ \A i \in 1..Len(rows), j \in 1..Len(rows) :
           i # j => Key(rows[i]) # Key(rows[j]) /\ rows[i].bar_id # rows[j].bar_id

\* C11: every bar file on disk, of derive_bars at any timeframe and of the
\* daily script, is in ascending order of t and has no two rows with the
\* same (symbol, t, timeframe), nor with the same bar_id.
C11_SortedUniqueKeys ==
    \A p \in BarFiles : SortedUnique(disk[p].rows)

\* the same for the files derive_bars writes
C11_SortedUniqueKeysDerived ==
    Derived => SortedUnique(Written)

\* a daily file with two rows of the same t, for two New York dates
C11_Witness ==
    /\ last.op = "derive_daily" /\ last.outcome = "ok"
    /\ ~last.args.rth_only
    /\ LET rows == disk[OutPath("1Day", "parquet")].rows
       IN  \E i \in 1..Len(rows), j \in 1..Len(rows) :
               i # j /\ rows[i].t = rows[j].t /\ rows[i].bar_id = rows[j].bar_id

\* ------------------------------------------------------------------------
\* Daily bars (SpecBars)
\* ------------------------------------------------------------------------
SetMin(S) == CHOOSE x \in S : \A y \in S : x <= y

RECURSIVE SetSum(_, _)
SetSum(S, f) ==
    IF S = {} THEN 0 ELSE LET x == CHOOSE y \in S : TRUE IN f[x] + SetSum(S \ {x}, f)

\* out holds one row for each New York date of the minutes ms, stamped with
\* the UTC-day floor of the date's first minute and carrying its volume
OnePerNyDate(ms, Vol(_), out) ==
    LET dates == {NyDate(m) : m \in ms}
    IN  /\ Len(out) = Cardinality(dates)
        /\ \A d \in dates :
             LET of_d == {m \in ms : NyDate(m) = d}
             IN  \E i \in 1..Len(out) :
                     /\ out[i].t = Floor(SetMin(of_d), MinutesPerDay)
                     /\ out[i].v = SetSum(of_d, [m \in of_d |-> Vol(m)])

\* the minute file the daily pass read, and the rows it is asked to take
MinuteFile == disk[OutPath("1Min", "parquet")].rows
DailyInput ==
    SelectSeq(MinuteFile, LAMBDA r :
        /\ last.args.rth_only => r.rth
        /\ ~last.args.fill_gaps => r.provider # "carry_forward")
VolumeIn(rows, m) == SeqSumInt(Map(SelectSeq(rows, LAMBDA r : r.t = m), LAMBDA r : r.v))
DailyVolume(m) == VolumeIn(DailyInput, m)

\* C12 for derive_bars: a 1Day derivation (no gap fill, no session filter)
\* writes one bar for each New York date of the 1-minute bars, stamped with
\* the UTC-day floor of the date's first bar.
C12_DerivedPerNyDate ==
    Derived /\ last.args.tf = "1Day" /\ ~last.args.fill_gaps /\ ~last.args.rth_only =>
        OnePerNyDate({m \in Minutes : Merged(m)}, TradeVolume, Written)

\* C12 for the daily script: a pass that has 1-minute bars to take writes
\* one bar for each of their New York dates, stamped in the same way.
C12_DailyPerNyDate ==
    last.op = "derive_daily" /\ Exists(disk, OutPath("1Min", "parquet")) /\ DailyInput # <<>> =>
        /\ last.outcome = "ok"
        /\ OnePerNyDate({DailyInput[i].t : i \in 1..Len(DailyInput)}, DailyVolume,
                        disk[OutPath("1Day", "parquet")].rows)

\* C12 for the daily script when every 1-minute bar carries a provider label
C12_DailyPerNyDateLabelled ==
    last.op = "derive_daily" /\ Exists(disk, OutPath("1Min", "parquet"))
        /\ (\A i \in 1..Len(DailyInput) : DailyInput[i].provider # "NA")
    => C12_DailyPerNyDate

\* C12: 1Day bars, from derive_bars and from the daily script, are one per
\* New York date of the 1-minute bars and stamped with the UTC-day floor of
\* the date's first bar.
C12_OneBarPerNyDate == C12_DerivedPerNyDate /\ C12_DailyPerNyDate

\* a 1Day derivation that wrote two bars for the minutes of one New York
\* date
C12_Witness ==
    /\ Derived /\ last.args.tf = "1Day" /\ ~last.args.fill_gaps /\ ~last.args.rth_only
    /\ Cardinality({NyDate(m) : m \in {k \in Minutes : Merged(k)}}) = 1
    /\ Len(Written) = 2

\* ------------------------------------------------------------------------
\* Resampled volume (SpecBars)
\* ------------------------------------------------------------------------
\* the 1-minute series the call resampled
MinuteSeries ==
    MinuteBars(SelectFiles(trades_files, Year, last.args.from_date, last.args.to_date),
               SelectFiles(tbbo_files, Year, last.args.from_date, last.args.to_date),
               InstId, last.args.fill_gaps, last.args.rth_only,
               last.args.from_date, last.args.to_date)
BucketOf(t) == Floor(t, TfMap[last.args.tf])
InBucket(ms, b) == SelectSeq(ms, LAMBDA r : BucketOf(r.t) = b)
Volumes(rows) == SeqSumInt(Map(rows, LAMBDA r : r.v))
TickVolume == SetSum(Minutes, [m \in Minutes |-> TradeVolume(m)])

BoundaryMinutes == {4 * 60 - 1, 4 * 60, 9 * 60 + 29, 9 * 60 + 30,
                    16 * 60 - 1, 16 * 60, 20 * 60 - 1, 20 * 60}

\* <<local date, offset in force, local minute-of-day>>: a summer day, the
\* day daylight time ends, a winter day, the day daylight time starts, and
\* 00:30 of either change day, before the clock moves
SessionCases ==
    ({<<1, NyUtcOffset>>, <<3, NyStdOffset>>, <<4, NyStdOffset>>, <<5, NyUtcOffset>>}
        \X BoundaryMinutes)
    \cup {<<<<3, NyUtcOffset>>, 30>>, <<<<5, NyStdOffset>>, 30>>}
UtcOf(c) == c[1][1] * MinutesPerDay + c[2] + c[1][2]

InitSessions ==
    /\ layout = "dirs"
    /\ \E c \in SessionCases, p \in Prices, z \in 0..MaxSize :
           trades_files = <<File(DayOf(UtcOf(c)),
                                 <<[ts |-> UtcOf(c), price |-> p, size |-> z, inst |-> InstId]>>)>>
    /\ tbbo_files = <<>>
    /\ symbology = Some(InstId)
    /\ pandas_lenient \in BOOLEAN
    /\ InitState

SessionCall ==
    /\ last.op = "none"
    /\ \E rth_only \in BOOLEAN : DeriveBars(TRUE, None, None, "1Min", "parquet", FALSE, rth_only)

NextSessions == SessionCall

SpecSessions == InitSessions /\ [][NextSessions]_vars

\* the label the local minute-of-day m calls for
LabelOf(m) ==
    CASE 4 * 60 <= m /\ m < 9 * 60 + 30 -> "pre"
      [] 9 * 60 + 30 <= m /\ m < 16 * 60 -> "regular"
      [] 16 * 60 <= m /\ m < 20 * 60 -> "post"
      [] OTHER -> "off"

\* C14: every written 1-minute bar carries the one session label its New
\* York minute-of-day calls for (pre from 04:00, regular from 09:30, post
\* from 16:00, off from 20:00 and before 04:00), on summer days, winter
\* days and both clock-change days, and is_rth is set exactly on the regular
\* bars; with rth_only only regular bars are written.
C14_SessionByLocalMinute ==
    Derived1Min =>
        \A c \in SessionCases : \A i \in 1..Len(Written) :
            Written[i].t = UtcOf(c) =>
                /\ Written[i].session = LabelOf(c[2])
                /\ Written[i].rth = (LabelOf(c[2]) = "regular")
                /\ last.args.rth_only => LabelOf(c[2]) = "regular"

\* on the day daylight time ends, the 09:30 local bar (14:30 UTC) is
\* written as a regular bar
C14_Witness ==
    /\ Derived1Min
    /\ \E i \in 1..Len(Written) :
           /\ Written[i].t = UtcOf(<<<<3, NyStdOffset>>, 9 * 60 + 30>>)
           /\ Written[i].session = "regular" /\ Written[i].rth

\* the same day's 09:29 local bar is a pre bar
C14_WitnessPre ==
    /\ Derived1Min
    /\ \E i \in 1..Len(Written) :
           /\ Written[i].t = UtcOf(<<<<3, NyStdOffset>>, 9 * 60 + 29>>)
           /\ Written[i].session = "pre" /\ ~Written[i].rth

\* ------------------------------------------------------------------------
\* Failure modes of derive_bars (Spec)
\* ------------------------------------------------------------------------
\* this step is a derive_bars call
Calls == now' = now /\ last'.op = "derive_bars"

\* no trade file matches the window of the call
NoTradeFile(args) ==
    \/ layout = "dirs" /\ SelectFiles(trades_files, Year, args.from_date, args.to_date) = <<>>
    \/ layout = "stub" /\ trades_files = <<>>

\* C15: a derive_bars call for which no trade file matches (the trade
\* directory may be missing) fails and leaves the bar files and the manifest
\* as they were.
C15_NoInputData ==
    [][Calls /\ NoTradeFile(last'.args) =>
           last'.outcome = "error" /\ disk' = disk /\ manifest_file' = manifest_file]_vars

\* the same where both stream directories exist
C15_NoInputDataOnDirs ==
    [][Calls /\ layout = "dirs" /\ NoTradeFile(last'.args) =>
           last'.outcome = "error" /\ disk' = disk /\ manifest_file' = manifest_file]_vars

\* a call without any trade file that returned a manifest and left a bar
\* file and a manifest behind
C15_Witness ==
    /\ layout = "stub" /\ trades_files = <<>>
    /\ Derived
    /\ Exists(disk, <<"bars", "1m", "parquet">>)
    /\ manifest_file # None

\* ------------------------------------------------------------------------
\* Trades without quotes (SpecTrades)
\* ------------------------------------------------------------------------
\* one trade file holding two trades of one minute, and no quote file: the
\* quote directory is empty ("dirs") or missing ("stub")
TradeSizes == 1..(MaxSize + 1)

InitTrades ==
    /\ layout \in {"dirs", "stub"}
    /\ \E m \in Minutes, p1 \in Prices, p2 \in Prices, z1 \in TradeSizes, z2 \in TradeSizes :
           trades_files = <<File(0, <<[ts |-> m, price |-> p1, size |-> z1, inst |-> InstId],
                                      [ts |-> m, price |-> p2, size |-> z2, inst |-> InstId]>>)>>
    /\ tbbo_files = <<>>
    /\ symbology = Some(InstId)
    /\ pandas_lenient \in BOOLEAN
    /\ InitState

TradesCall ==
    \E force \in BOOLEAN : DeriveBars(force, None, None, "1Min", "parquet", FALSE, FALSE)

NextTrades == TradesCall

SpecTrades == InitTrades /\ [][NextTrades]_vars

\* the bar file holds exactly the one bar of the two trades
OneTradeBar ==
    LET ticks == trades_files[1].rows
        m == ticks[1].ts
    IN  /\ Exists(disk, OutPath("1Min", "parquet"))
        /\ Len(Written) = 1
        /\ Written[1].t = m
        /\ Written[1].o = ticks[1].price
        /\ Written[1].c = ticks[2].price
        /\ Written[1].h = (IF RLe(ticks[1].price, ticks[2].price) THEN ticks[2].price ELSE ticks[1].price)
        /\ Written[1].l = (IF RLe(ticks[1].price, ticks[2].price) THEN ticks[1].price ELSE ticks[2].price)
        /\ Written[1].v = ticks[1].size + ticks[2].size
        /\ Written[1].n = 2
        /\ Written[1].vw = RDiv(RAdd(RScale(ticks[1].price, ticks[1].size),
                                     RScale(ticks[2].price, ticks[2].size)),
                                ticks[1].size + ticks[2].size)
        /\ Written[1].provider = "databento_trades"

\* C16: with trade files and no quote file (the quote directory empty or
\* missing) a derive_bars call succeeds and writes the bars of the trades
\* alone: two trades of one minute give one bar with the first price as
\* open, the last as close, the highest and lowest as high and low, the
\* summed size as volume, the size-weighted price as vwap and provider
\* trades.
C16_TradesAlone == last.op = "derive_bars" => Derived /\ OneTradeBar

\* the same where the quote directory exists and is empty
C16_TradesAloneOnDirs == last.op = "derive_bars" /\ layout = "dirs" => Derived /\ OneTradeBar

\* a call that found trade files and no quote directory, returned a manifest
\* and wrote no bar of the trades
C16_Witness ==
    /\ layout = "stub" /\ trades_files # <<>> /\ tbbo_files = <<>>
    /\ Derived
    /\ ~Exists(disk, OutPath("1Min", "parquet"))
    /\ Exists(disk, <<"bars", "1m", "parquet">>)

\* trades of 1 x 2 and 2 x 1 in a minute gave a bar of volume 3 and vwap 4/3
C16_WitnessOnDirs ==
    /\ layout = "dirs" /\ Derived /\ OneTradeBar
    /\ Written[1].v = 3 /\ Written[1].vw = Rat(4, 3) /\ Written[1].o = Num(1) /\ Written[1].h = Num(2)

\* ------------------------------------------------------------------------
\* Arguments outside the supported sets (SpecArgs)
\* ------------------------------------------------------------------------
ArgTfs == {"1Min", "2Min"}
ArgFormats == {"parquet", "xml"}

ArgsCall ==
    \E tf \in ArgTfs, out_format \in ArgFormats :
        DeriveBars(TRUE, None, None, tf, out_format, FALSE, FALSE)

NextArgs == ArgsCall

SpecArgs == Init /\ [][NextArgs]_vars

Unsupported(args) == args.tf \notin DOMAIN TfMap \/ args.out_format \notin Formats

\* C17: a derive_bars call with a timeframe or a format outside the
\* supported sets fails, having read no tick file and leaving every file
\* and the manifest as they were.
C17_RejectedBeforeIO ==
    [][Calls /\ Unsupported(last'.args) =>
           /\ last'.outcome = "error"
           /\ ~last'.read_ticks
           /\ disk' = disk /\ manifest_file' = manifest_file]_vars

\* an unsupported call fails or, on the stub layout, is not checked at all,
\* and on no layout does it write a bar file of the requested name
C17_RejectedOrStub ==
    last.op = "derive_bars" /\ Unsupported(last.args) =>
        /\ last.outcome = "error" \/ layout = "stub"
        /\ layout # "stub" => ~Exists(disk, OutPath(last.args.tf, last.args.out_format))

\* a call with an unsupported timeframe that failed after the tick files
\* were read
C17_Witness ==
    /\ last.op = "derive_bars" /\ last.args.tf \notin DOMAIN TfMap
    /\ last.outcome = "error" /\ last.read_ticks

\* a call with an unsupported format that returned a manifest
C17_WitnessStub ==
    /\ last.op = "derive_bars" /\ last.args.out_format \notin Formats
    /\ layout = "stub" /\ last.outcome = "ok" /\ manifest_file # None

\* ------------------------------------------------------------------------
\* Readers of a derivation under way (SpecWrite)
\* ------------------------------------------------------------------------
\* derive_bars up to the moment it opens the bar file for writing; a call
\* that fails before that is over in one step
StartWrite ==
    /\ writer = Idle
    /\ \E force \in BOOLEAN, tf \in {"1Min", "5Min"} :
         LET args == [force |-> force, from_date |-> None, to_date |-> None, tf |-> tf,
                      out_format |-> "parquet", fill_gaps |-> FALSE, rth_only |-> FALSE]
             r == DeriveTicks(Symbol, Year, force, None, None, tf, "parquet", FALSE, FALSE)
             out_path == OutPath(tf, "parquet")
         IN  IF r.outcome # "ok"
             THEN /\ Call("derive_bars", args, r, catalog)
             ELSE /\ disk' = Write(disk, out_path, PartialFile(r.disk[out_path]))
                  /\ writer' = [pc |-> "bars", args |-> args, r |-> r]
                  /\ UNCHANGED <<inputs, manifest_file, catalog, now, last, seen, backtests, services>>

Finished(w) == [op |-> "derive_bars", args |-> w.args, outcome |-> w.r.outcome,
                ret |-> w.r.ret, read_ticks |-> w.r.read_ticks]

\* write_parquet returns: the bar file is whole; the call is over if it
\* returns the manifest it found
CloseBars ==
    /\ writer.pc = "bars"
    /\ disk' = Write(disk, OutPath(writer.args.tf, "parquet"),
                     writer.r.disk[OutPath(writer.args.tf, "parquet")])
    /\ IF writer.r.manifest_file = manifest_file
       THEN writer' = Idle /\ last' = Finished(writer)
       ELSE writer' = [writer EXCEPT !.pc = "manifest"] /\ last' = last
    /\ UNCHANGED <<inputs, manifest_file, catalog, now, seen, backtests, services>>

\* write_text opens bars_manifest.json and has written part of it
OpenManifest ==
    /\ writer.pc = "manifest"
    /\ manifest_file' = Some(PartialText(writer.r.manifest_file[1]))
    /\ writer' = [writer EXCEPT !.pc = "manifest_open"]
    /\ UNCHANGED <<inputs, disk, catalog, now, last, seen, backtests, services>>

\* write_text returns and so does the call
CloseManifest ==
    /\ writer.pc = "manifest_open"
    /\ manifest_file' = writer.r.manifest_file
    /\ writer' = Idle
    /\ last' = Finished(writer)
    /\ UNCHANGED <<inputs, disk, catalog, now, seen, backtests, services>>

\* a write fails half way (the disk is full, the process is killed)
FailWrite ==
    /\ writer.pc \in {"bars", "manifest_open"}
    /\ writer' = Idle
    /\ last' = [Finished(writer) EXCEPT !.outcome = "error", !.ret = None]
    /\ UNCHANGED <<inputs, disk, manifest_file, catalog, now, seen, backtests, services>>

\* another process reads a bar file or the manifest
Read ==
    /\ \/ \E p \in DOMAIN disk : seen' = <<"bars", disk[p]>>
       \/ manifest_file # None /\ seen' = <<"manifest", manifest_file[1]>>
    /\ UNCHANGED <<inputs, disk, manifest_file, catalog, now, last, writer, backtests, services>>

InitWrite ==
    /\ layout = "dirs"
    /\ trades_files \in TradeFileLists([ts : Minutes, price : {Num(1)}, size : {1}, inst : {InstId}], 1)
    /\ tbbo_files = <<>>
    /\ symbology = Some(InstId)
    /\ pandas_lenient = TRUE
    /\ InitState

NextWrite == StartWrite \/ CloseBars \/ OpenManifest \/ CloseManifest \/ FailWrite \/ Read

SpecWrite == InitWrite /\ [][NextWrite]_vars

Complete(s) == IF s[1] = "bars" THEN s[2].format \in Formats ELSE Parses(s[2])

\* C18: whatever a reader reads of the bar files and the manifest, while a
\* derivation is under way or after a write failed, is a whole file.
C18_WholeFiles == seen # None => Complete(seen)

\* a reader got part of the manifest a derivation was writing
C18_Witness ==
    /\ writer.pc = "manifest_open"
    /\ seen = <<"manifest", PartialText(writer.r.manifest_file[1])>>

\* a reader got part of a bar file after its write failed
C18_WitnessFailed ==
    /\ writer = Idle /\ last.outcome = "error"
    /\ seen # None /\ seen[1] = "bars" /\ seen[2].format = "partial"

\* ------------------------------------------------------------------------
\* create_backtest_service and run_backtest_and_persist (SpecRuns)
\* ------------------------------------------------------------------------
derivation_data == <<inputs, disk, manifest_file, catalog, now, last, readers>>
derivation == <<derivation_data, services>>

\* the body of test_post_backtests_idempotent (a dataset_id) and the minimal
\* body of test_post_backtests_idempotency (no dataset_id, symbol or year)
Bodies == {[dataset_id |-> Some(<<Symbol, Year, "1m">>), strategy_id |-> "sma_crossover"],
           [dataset_id |-> None, strategy_id |-> "sma_crossover"]}
IdemKeys == {None, Some("k1"), Some("k2")}

CanonicalInputsHash(payload) == Sha256(payload)

\* the rows a SELECT ... WHERE finds; fetchone() returns one of them
FindRunByInputHash(input_hash) == {r \in DOMAIN runs : runs[r].input_hash = Some(input_hash)}
FindRunByIdempotencyKey(idem) == {r \in DOMAIN runs : runs[r].idempotency_key = Some(idem)}

Returns(c, body, key, code, status, run_id) ==
    calls' = [calls EXCEPT ![c] = [pc |-> "done", body |-> body, key |-> key,
                                   resp |-> [code |-> code, status |-> status, run_id |-> run_id]]]
Goes(c, body, key, pc) ==
    calls' = [calls EXCEPT ![c] = [pc |-> pc, body |-> body, key |-> key, resp |-> None]]

\* a call arrives: validation, the stub fallback's look in _IDEMP_CACHE, or
\* the look for a run of the Idempotency-Key
Post(c) ==
    /\ calls[c].pc = "new"
    /\ \E body \in Bodies, key \in IdemKeys :
         IF body.dataset_id = None
         THEN /\ IF key = None THEN Returns(c, body, key, 400, "BAD_REQUEST", None)
                 ELSE IF key[1] \in DOMAIN idemp_cache
                      THEN Returns(c, body, key, 200, "EXISTS", Some(idemp_cache[key[1]]))
                 ELSE Goes(c, body, key, "stub_store")
              /\ UNCHANGED <<runs, idemp_cache, threads, jobs, unique_hash, run_store, derivation>>
         ELSE /\ IF key # None /\ FindRunByIdempotencyKey(key[1]) # {}
                 THEN \E r \in FindRunByIdempotencyKey(key[1]) :
                          Returns(c, body, key, 200, "EXISTS", Some(r))
                 ELSE Goes(c, body, key, "find_hash")
              /\ UNCHANGED <<runs, idemp_cache, threads, jobs, unique_hash, run_store, derivation>>

\* the stub fallback stores a fresh run id under the key
StubStore(c) ==
    /\ calls[c].pc = "stub_store"
    /\ idemp_cache' = Write(idemp_cache, calls[c].key[1], <<"stub", c>>)
    /\ Returns(c, calls[c].body, calls[c].key, 202, "QUEUED", Some(<<"stub", c>>))
    /\ UNCHANGED <<runs, threads, jobs, unique_hash, run_store, derivation>>

\* the look for a run of the same input_hash
FindHash(c) ==
    /\ calls[c].pc = "find_hash"
    /\ LET existing == FindRunByInputHash(CanonicalInputsHash(calls[c].body))
       IN  IF existing # {}
           THEN \E r \in existing : Returns(c, calls[c].body, calls[c].key, 200, "EXISTS", Some(r))
           ELSE Goes(c, calls[c].body, calls[c].key, "create")
    /\ UNCHANGED <<runs, idemp_cache, threads, jobs, unique_hash, run_store, derivation>>

\* data/backtests/{run_id}/{name}
PathOf(run_id, name) == <<run_id, name>>

\* create_run and the start of the background thread, or the fallback
\* when the INSERT is refused
CreateRun(c) ==
    /\ calls[c].pc = "create"
    /\ LET input_hash == CanonicalInputsHash(calls[c].body)
           run_id == <<"run", c>>
       IN  IF unique_hash /\ FindRunByInputHash(input_hash) # {}
           THEN /\ \E r \in FindRunByInputHash(input_hash) :
                       Returns(c, calls[c].body, calls[c].key, 200, "EXISTS", Some(r))
                /\ UNCHANGED <<runs, threads>>
           ELSE /\ runs' = Write(runs, run_id, [status |-> "QUEUED", input_hash |-> Some(input_hash),
                                                idempotency_key |-> calls[c].key,
                                                created_at |-> now,
                                                run_manifest_path |-> PathOf(run_id, "run-manifest.json")])
                /\ threads' = threads \cup {run_id}
                /\ Returns(c, calls[c].body, calls[c].key, 202, "QUEUED", Some(run_id))
    /\ UNCHANGED <<idemp_cache, jobs, unique_hash, run_store, derivation>>

\* the keyword arguments the thread is started with, and the parameters of
\* run_backtest_and_persist
ThreadKwargs == {"dataset_id", "strategy_id", "params", "seed", "speed", "slippage_fees",
                 "run_id", "from_date", "to_date"}
Parameters == {"dataset_id", "strategy_id", "params", "seed", "speed", "slippage_fees", "run_id"}

\* the thread calls its target; a keyword the target does not take is a
\* TypeError that ends the thread
ThreadTarget(r) ==
    /\ r \in threads
    /\ threads' = threads \ {r}
    /\ jobs' = IF ThreadKwargs \subseteq Parameters THEN jobs \cup {r} ELSE jobs
    /\ UNCHANGED <<runs, idemp_cache, calls, unique_hash, run_store, derivation>>

\* run_backtest_and_persist without a run_id (the command line): a new
\* QUEUED row without input_hash
CliBacktest(j) ==
    /\ <<"cli", j>> \notin DOMAIN runs
    /\ runs' = Write(runs, <<"cli", j>>, [status |-> "QUEUED", input_hash |-> None,
                                          idempotency_key |-> None,
                                          created_at |-> now,
                                          run_manifest_path |-> PathOf(<<"cli", j>>, "run-manifest.json")])
    /\ jobs' = jobs \cup {<<"cli", j>>}
    /\ UNCHANGED <<idemp_cache, calls, threads, unique_hash, run_store, derivation>>

\* UPDATE runs SET status = ? WHERE run_id = ?: no row, no change
SetRunStatus(r, status) ==
    runs' = IF r \in DOMAIN runs THEN [runs EXCEPT ![r].status = status] ELSE runs

SetRunning(r) ==
    /\ r \in jobs /\ progress[r] = "new"
    /\ SetRunStatus(r, "RUNNING")
    /\ progress' = [progress EXCEPT ![r] = "running"]
    /\ UNCHANGED <<idemp_cache, calls, threads, jobs, unique_hash, artifacts, retention, derivation>>

\* the files of a run's directory, in the order they are written
ArtifactFiles == <<"equity.parquet", "orders.parquet", "fills.parquet", "metrics.json",
                   "run-manifest.json">>
FirstFiles(n) == {ArtifactFiles[i] : i \in 1..n}

\* except Exception: the row is set to ERROR and the exception goes on
Raises(r) ==
    /\ SetRunStatus(r, "ERROR")
    /\ jobs' = jobs \ {r}
    /\ progress' = [progress EXCEPT ![r] = "raised"]

\* runner.run ends in SystemExit (the dataset is not in the catalog, its
\* bar file is missing or lacks a column), which except Exception lets by
RunnerExits(r) ==
    /\ r \in jobs /\ progress[r] = "running"
    /\ jobs' = jobs \ {r}
    /\ progress' = [progress EXCEPT ![r] = "exited"]
    /\ UNCHANGED <<runs, idemp_cache, calls, threads, unique_hash, artifacts, retention, derivation>>

\* the runner returns and the five files are written, or the runner or a
\* write raises when n of them are
WriteArtifacts(r) ==
    /\ r \in jobs /\ progress[r] = "running"
    /\ \E n \in 0..Len(ArtifactFiles) :
           /\ artifacts' = IF n = 0 THEN artifacts
                           ELSE Write(artifacts, r, Get(artifacts, r, {}) \cup FirstFiles(n))
           /\ IF n = Len(ArtifactFiles)
              THEN /\ progress' = [progress EXCEPT ![r] = "written"]
                   /\ UNCHANGED <<runs, jobs>>
              ELSE Raises(r)
    /\ UNCHANGED <<idemp_cache, calls, threads, unique_hash, retention, derivation>>

\* set_run_status(DONE) with the four paths, or the statement raises
SetDone(r) ==
    /\ r \in jobs /\ progress[r] = "written"
    /\ \E ok \in BOOLEAN :
           IF ok
           THEN /\ runs' = IF r \notin DOMAIN runs THEN runs
                           ELSE Write(runs, r, With(runs[r],
                                    [status |-> "DONE",
                                     metrics_path |-> PathOf(r, "metrics.json"),
                                     equity_path |-> PathOf(r, "equity.parquet"),
                                     orders_path |-> PathOf(r, "orders.parquet"),
                                     fills_path |-> PathOf(r, "fills.parquet")]))
                /\ progress' = [progress EXCEPT ![r] = "done"]
                /\ UNCHANGED jobs
           ELSE Raises(r)
    /\ UNCHANGED <<idemp_cache, calls, threads, unique_hash, artifacts, retention, derivation>>

\* upsert_run_metrics and the return, or the statement raises (the
\* database is locked, the catalog has no run_metrics table)
UpsertRunMetrics(r) ==
    /\ r \in jobs /\ progress[r] = "done"
    /\ \E ok \in BOOLEAN :
           IF ok
           THEN /\ jobs' = jobs \ {r}
                /\ progress' = [progress EXCEPT ![r] = "returned"]
                /\ UNCHANGED runs
           ELSE Raises(r)
    /\ UNCHANGED <<idemp_cache, calls, threads, unique_hash, artifacts, retention, derivation>>

InitRuns ==
    /\ layout = "stub"
    /\ trades_files = <<>>
    /\ tbbo_files = <<>>
    /\ symbology = None
    /\ pandas_lenient = TRUE
    /\ disk = [k \in {} |-> None]
    /\ manifest_file = None
    /\ catalog = None
    /\ now = 0
    /\ last = NoCall
    /\ writer = Idle
    /\ seen = None
    /\ NoBacktests
    /\ unique_hash \in BOOLEAN
    /\ NoServices

Requests == \E c \in 1..MaxCalls : Post(c) \/ StubStore(c) \/ FindHash(c) \/ CreateRun(c)
Workers ==
    \E r \in RunIds : \/ ThreadTarget(r) \/ SetRunning(r) \/ RunnerExits(r)
                      \/ WriteArtifacts(r) \/ SetDone(r) \/ UpsertRunMetrics(r)
CommandLine == \E j \in 1..MaxJobs : CliBacktest(j)

NextRuns == Requests \/ Workers \/ CommandLine

\* a started thread runs, and a running job goes on
SpecRuns == InitRuns /\ [][NextRuns]_vars /\ WF_vars(Workers)

\* the finished calls that sent the body b, and the run ids they were given
DoneWith(b) == {c \in 1..MaxCalls : calls[c].pc = "done" /\ calls[c].body = b}
Accepted(b) == {c \in DoneWith(b) : calls[c].resp.code = 202}
OneRun(b) ==
    /\ \A c \in DoneWith(b) :
           \/ calls[c].resp.code = 202 /\ calls[c].resp.status = "QUEUED"
           \/ calls[c].resp.code = 200 /\ calls[c].resp.status = "EXISTS"
    /\ DoneWith(b) # {} => Cardinality(Accepted(b)) = 1
    /\ \A c \in DoneWith(b), d \in DoneWith(b) : calls[c].resp.run_id = calls[d].resp.run_id
    /\ Cardinality(FindRunByInputHash(CanonicalInputsHash(b))) <= 1

\* C19: of the calls made with one body, in whatever order and overlap and
\* with whatever Idempotency-Key, one is answered 202 QUEUED and every
\* other 200 EXISTS, all with the same run_id, and the catalog holds no
\* second run of these inputs.
C19_OneRunPerInputs == \A b \in Bodies : OneRun(b)

\* the same for the body with a dataset_id, on a catalog that refuses a
\* second row of an input_hash
C19_OneRunPerDataset ==
    unique_hash => \A b \in Bodies : b.dataset_id # None => OneRun(b)

\* two calls with the minimal body and different keys were both answered
\* 202 QUEUED, with different run ids
C19_Witness ==
    \E c \in 1..MaxCalls, d \in 1..MaxCalls :
        /\ calls[c].pc = "done" /\ calls[d].pc = "done"
        /\ calls[c].body = calls[d].body /\ calls[c].body.dataset_id = None
        /\ calls[c].key # calls[d].key
        /\ calls[c].resp.code = 202 /\ calls[d].resp.code = 202
        /\ calls[c].resp.run_id # calls[d].resp.run_id

\* two overlapping calls with a dataset_id each created a run
C19_WitnessRace ==
    \E b \in Bodies : b.dataset_id # None /\ Cardinality(Accepted(b)) = 2
                        /\ Cardinality(FindRunByInputHash(CanonicalInputsHash(b))) = 2

\* a call with a dataset_id was answered 200 EXISTS with the run another
\* call created, on a catalog that refuses a second row
C19_WitnessDataset ==
    /\ unique_hash
    /\ \E c \in 1..MaxCalls, d \in 1..MaxCalls :
           /\ calls[c].pc = "done" /\ calls[d].pc = "done"
           /\ calls[c].resp.code = 202 /\ calls[d].resp.code = 200
           /\ calls[c].body.dataset_id # None
           /\ calls[d].resp.run_id = calls[c].resp.run_id /\ calls[d].key # calls[c].key

StatusIn(r, S) == r \in DOMAIN runs /\ runs[r].status \in S

\* C20: every run that is QUEUED or RUNNING is DONE or ERROR later on.
C20_RunsFinish ==
    \A r \in RunIds : StatusIn(r, {"QUEUED", "RUNNING"}) ~> StatusIn(r, {"DONE", "ERROR"})

\* the same for the runs made from the command line
C20_CliRunsFinish ==
    \A r \in {"cli"} \X (1..MaxJobs) :
        StatusIn(r, {"QUEUED", "RUNNING"}) ~> StatusIn(r, {"DONE", "ERROR"})

\* a run the service created is QUEUED, its thread is over and nothing
\* works on it
C20_Witness ==
    \E c \in 1..MaxCalls :
        /\ calls[c].pc = "done" /\ calls[c].resp.code = 202
        /\ StatusIn(<<"run", c>>, {"QUEUED"})
        /\ <<"run", c>> \notin threads /\ <<"run", c>> \notin jobs

\* the moves of a row's status, and a call that returns
Moves == {<<"QUEUED", "RUNNING">>, <<"RUNNING", "DONE">>, <<"RUNNING", "ERROR">>}
Moved(r) == r \in DOMAIN runs /\ r \in DOMAIN runs' /\ runs'[r].status # runs[r].status
ReturnsNow(r) == progress[r] # "returned" /\ progress'[r] = "returned"

\* C28: a row's status only moves QUEUED to RUNNING, RUNNING to DONE or
\* RUNNING to ERROR, so DONE and ERROR stay, and
\* run_backtest_and_persist returns only when the row of its run is DONE.
C28_StatusMoves ==
    [][\A r \in RunIds :
           /\ Moved(r) => <<runs[r].status, runs'[r].status>> \in Moves
           /\ ReturnsNow(r) /\ r \in DOMAIN runs' => runs'[r].status = "DONE"]_vars

\* the first half alone, and the second
C28_MovesOnly ==
    [][\A r \in RunIds : Moved(r) => <<runs[r].status, runs'[r].status>> \in Moves]_vars
C28_ReturnsDone ==
    [][\A r \in RunIds : ReturnsNow(r) /\ r \in DOMAIN runs' => runs'[r].status = "DONE"]_vars

\* a row that was DONE, with its paths, is ERROR: upsert_run_metrics raised
C28_Witness ==
    \E r \in RunIds :
        /\ StatusIn(r, {"ERROR"}) /\ progress[r] = "raised"
        /\ "metrics_path" \in DOMAIN runs[r]
        /\ ArtifactFiles[5] \in Get(artifacts, r, {})

\* ------------------------------------------------------------------------
\* The BFF's WebSocketConnectionManager (SpecSockets)
\*
\* The endpoint of a client connection and the forwarding task of a backend
\* websocket are asyncio tasks.  A task gives way to the others while it
\* waits for websockets.connect, for a client message or for a backend
\* frame; the rest of a handler runs in one step.  While a task waits for
\* a backend websocket to close, the forwarding task of that websocket may
\* run its cleanup first (race).  A send to a client whose socket is
\* broken raises, and a send to any other client succeeds.
\* ------------------------------------------------------------------------

\* what the manager's handlers leave alone
beside_bff == <<derivation_data, backtests, chart>>

\* del d[k], and d[k] = v
DictDel(d, k) == [x \in DOMAIN d \ {k} |-> d[x]]
DictSet(d, k, v) == [x \in DOMAIN d \cup {k} |-> IF x = k THEN v ELSE d[x]]

\* the manager's fields and what its sends meet; raised: an exception is
\* on its way up the stack
Manager ==
    [active_connections |-> active_connections,
     connection_metadata |-> connection_metadata,
     run_subscriptions |-> run_subscriptions,
     backend_connections |-> backend_connections,
     backend_sockets |-> backend_sockets,
     broken |-> broken,
     delivered |-> delivered,
     raised |-> FALSE]

Becomes(m) ==
    /\ active_connections' = m.active_connections
    /\ connection_metadata' = m.connection_metadata
    /\ run_subscriptions' = m.run_subscriptions
    /\ backend_connections' = m.backend_connections
    /\ backend_sockets' = m.backend_sockets
    /\ broken' = m.broken
    /\ delivered' = m.delivered

\* an except clause took the exception
Caught(m) == [m EXCEPT !.raised = FALSE]

\* the task running a handler: an endpoint, or Some(w) for the forwarding
\* task of websocket w
Endpoint == None

\* _unsubscribe_from_run, run by task me: when the forwarding task of the
\* websocket being closed cleaned up first, del backend_connections[run_id]
\* raises KeyError and the metadata is left as it was
UnsubscribeFromRun(m, c, r, race, me) ==
    LET subs == m.run_subscriptions[r] \ {c}
        w == m.backend_connections[r]
        closed == [m EXCEPT !.run_subscriptions = DictDel(@, r),
                            !.backend_sockets[w].open = FALSE,
                            !.backend_connections = DictDel(@, r)]
        m1 == IF r \notin DOMAIN m.run_subscriptions THEN m
              ELSE IF subs # {} THEN [m EXCEPT !.run_subscriptions[r] = subs]
              ELSE IF r \notin DOMAIN m.backend_connections
                   THEN [m EXCEPT !.run_subscriptions = DictDel(@, r)]
              ELSE IF race /\ Some(w) # me /\ m.backend_sockets[w].task = "running"
                   THEN [closed EXCEPT !.backend_sockets[w].task = "done", !.raised = TRUE]
              ELSE closed
    IN  IF m1.raised \/ c \notin DOMAIN m1.connection_metadata THEN m1
        ELSE [m1 EXCEPT !.connection_metadata[c] = @ \ {r}]

\* the loop of disconnect_client over list(subscriptions)
RECURSIVE UnsubscribeAll(_, _, _, _, _)
UnsubscribeAll(m, c, rs, race, me) ==
    IF rs = {} \/ m.raised THEN m
    ELSE LET r == CHOOSE x \in rs : TRUE
         IN  UnsubscribeAll(UnsubscribeFromRun(m, c, r, race, me), c, rs \ {r}, race, me)

DisconnectClient(m, c, race, me) ==
    LET m0 == [m EXCEPT !.active_connections = @ \ {c}]
    IN  IF c \notin DOMAIN m.connection_metadata THEN m0
        ELSE LET m1 == UnsubscribeAll(m0, c, m.connection_metadata[c], race, me)
             IN  IF m1.raised THEN m1
                 ELSE [m1 EXCEPT !.connection_metadata = DictDel(@, c)]

\* _send_to_client: frame is None for a message of the manager itself, or
\* Some(<<run, n>>) for the n-th frame of a run's stream
SendToClient(m, c, frame, race, me) ==
    IF c \notin m.active_connections THEN m
    ELSE IF c \in m.broken THEN DisconnectClient(m, c, race, me)
    ELSE IF frame = None THEN m
    ELSE [m EXCEPT !.delivered[<<c, frame[1][1], frame[1][2]>>] = @ + 1]

\* the loop of _broadcast_to_run_subscribers over the copied set
RECURSIVE SendAll(_, _, _, _, _)
SendAll(m, cs, frame, race, me) ==
    IF cs = {} \/ m.raised THEN m
    ELSE LET c == CHOOSE x \in cs : TRUE
         IN  SendAll(SendToClient(m, c, frame, race, me), cs \ {c}, frame, race, me)

BroadcastToRunSubscribers(m, r, frame, race, me) ==
    IF r \notin DOMAIN m.run_subscriptions THEN m
    ELSE SendAll(m, m.run_subscriptions[r], frame, race, me)

\* the finally block of _forward_backend_messages for websocket w
ForwardFinally(m, w, race) ==
    LET r == m.backend_sockets[w].run
        m1 == [m EXCEPT !.backend_connections = DictDel(@, r),
                        !.backend_sockets[w].task = "done"]
    IN  Caught(BroadcastToRunSubscribers(m1, r, None, race, Some(w)))

\* connect_client for a connection to /ws/{r}; dropped: the client went
\* away between the handshake and the first send
ConnectClient(c, r, dropped) ==
    /\ routes[c].pc = "new"
    /\ LET m0 == [Manager EXCEPT !.active_connections = @ \cup {c},
                                 !.connection_metadata = DictSet(@, c, {}),
                                 !.broken = IF dropped THEN @ \cup {c} ELSE @]
       IN  Becomes(SendToClient(m0, c, None, FALSE, Endpoint))
    /\ routes' = [routes EXCEPT ![c].pc = "auto", ![c].run = Some(r),
                                ![c].returned = dropped]
    /\ UNCHANGED beside_bff

\* handle_client_message ends: what an inner handler raised goes to
\* _send_error, and what that raises is caught once more
Handled(m, c, race) ==
    IF m.raised THEN Caught(SendToClient(Caught(m), c, None, race, Endpoint)) ELSE m

\* _handle_subscribe up to websockets.connect
Subscribe(c, r, race) ==
    /\ \/ routes[c].pc = "auto" /\ r = routes[c].run[1]
       \/ routes[c].pc = "loop" /\ c \notin broken /\ routes[c].msgs < MaxMessages
    /\ LET subs == IF r \in DOMAIN run_subscriptions THEN run_subscriptions[r] ELSE {}
           m0 == [Manager EXCEPT !.run_subscriptions = DictSet(@, r, subs \cup {c})]
           m1 == IF c \in DOMAIN connection_metadata
                 THEN [m0 EXCEPT !.connection_metadata[c] = @ \cup {r}] ELSE m0
           msgs == IF routes[c].pc = "loop" THEN routes[c].msgs + 1 ELSE routes[c].msgs
       IN  IF r \in DOMAIN backend_connections
           THEN /\ Becomes(Handled(SendToClient(m1, c, None, race, Endpoint), c, race))
                /\ routes' = [routes EXCEPT ![c].pc = "loop", ![c].msgs = msgs]
           ELSE /\ Becomes(m1)
                /\ routes' = [routes EXCEPT ![c].pc = "connecting", ![c].run = Some(r),
                                            ![c].msgs = msgs]
    /\ UNCHANGED beside_bff

\* websockets.connect returned: the rest of _ensure_backend_connection
\* and of _handle_subscribe
BackendConnected(c, race) ==
    /\ routes[c].pc = "connecting"
    /\ Len(backend_sockets) < MaxSockets
    /\ LET r == routes[c].run[1]
           w == Len(backend_sockets) + 1
           ws == [run |-> r, open |-> TRUE, task |-> "running", forwarded |-> 0]
           m0 == [Manager EXCEPT !.backend_sockets = Append(@, ws),
                                 !.backend_connections = DictSet(@, r, w)]
       IN  Becomes(Handled(SendToClient(m0, c, None, race, Endpoint), c, race))
    /\ routes' = [routes EXCEPT ![c].pc = "loop"]
    /\ UNCHANGED beside_bff

\* websockets.connect raised
BackendRefused(c, race) ==
    /\ routes[c].pc = "connecting"
    /\ LET r == routes[c].run[1]
           m0 == BroadcastToRunSubscribers(Manager, r, None, race, Endpoint)
           m1 == IF m0.raised THEN m0 ELSE SendToClient(m0, c, None, race, Endpoint)
       IN  Becomes(Handled(m1, c, race))
    /\ routes' = [routes EXCEPT ![c].pc = "loop"]
    /\ UNCHANGED beside_bff

\* _handle_unsubscribe
Unsubscribe(c, r, race) ==
    /\ routes[c].pc = "loop" /\ c \notin broken /\ routes[c].msgs < MaxMessages
    /\ LET m0 == UnsubscribeFromRun(Manager, c, r, race, Endpoint)
           m1 == IF m0.raised THEN m0 ELSE SendToClient(m0, c, None, race, Endpoint)
       IN  Becomes(Handled(m1, c, race))
    /\ routes' = [routes EXCEPT ![c].msgs = @ + 1]
    /\ UNCHANGED beside_bff

\* the client goes away
Break(c) ==
    /\ routes[c].pc \in {"auto", "connecting", "loop"}
    /\ c \notin broken
    /\ broken' = broken \cup {c}
    /\ UNCHANGED <<active_connections, connection_metadata, run_subscriptions,
                   backend_connections, backend_sockets, routes, delivered,
                   beside_bff>>

\* receive_text raises WebSocketDisconnect: the endpoint's finally
RouteExit(c, race) ==
    /\ routes[c].pc = "loop"
    /\ c \in broken
    /\ LET m == DisconnectClient(Manager, c, race, Endpoint)
       IN  /\ Becomes(m)
           /\ routes' = [routes EXCEPT ![c].pc = "closed", ![c].returned = ~m.raised]
    /\ UNCHANGED beside_bff

Forwarding(w) == backend_sockets[w].open /\ backend_sockets[w].task = "running"

\* one turn of the loop of _forward_backend_messages
BackendFrame(w, race) ==
    /\ Forwarding(w)
    /\ backend_sockets[w].forwarded < MaxFrames
    /\ LET r == backend_sockets[w].run
           n == backend_sockets[w].forwarded + 1
           m0 == [Manager EXCEPT !.backend_sockets[w].forwarded = n]
           m1 == BroadcastToRunSubscribers(m0, r, Some(<<r, n>>), race, Some(w))
       IN  Becomes(IF m1.raised THEN ForwardFinally(Caught(m1), w, race) ELSE m1)
    /\ UNCHANGED <<routes, beside_bff>>

\* the backend ends the stream
BackendClose(w) ==
    /\ Forwarding(w)
    /\ backend_sockets' = [backend_sockets EXCEPT ![w].open = FALSE]
    /\ UNCHANGED <<active_connections, connection_metadata, run_subscriptions,
                   backend_connections, routes, broken, delivered,
                   beside_bff>>

\* the forwarding task finds its websocket closed
ForwarderExit(w, race) ==
    /\ ~backend_sockets[w].open
    /\ backend_sockets[w].task = "running"
    /\ Becomes(ForwardFinally(Manager, w, race))
    /\ UNCHANGED <<routes, beside_bff>>

InitSockets ==
    /\ layout = "stub"
    /\ trades_files = <<>>
    /\ tbbo_files = <<>>
    /\ symbology = None
    /\ pandas_lenient = TRUE
    /\ InitState

Endpoints ==
    \E c \in Clients, r \in StreamRuns, race \in BOOLEAN :
        \/ ConnectClient(c, r, race)
        \/ Subscribe(c, r, race)
        \/ Unsubscribe(c, r, race)
        \/ BackendConnected(c, race)
        \/ BackendRefused(c, race)
        \/ RouteExit(c, race)
        \/ Break(c)
Forwarders ==
    \E w \in DOMAIN backend_sockets, race \in BOOLEAN :
        BackendFrame(w, race) \/ BackendClose(w) \/ ForwarderExit(w, race)

NextSockets == Endpoints \/ Forwarders

SpecSockets == InitSockets /\ [][NextSockets]_vars

\* the two indexes
Subscribers(r) == IF r \in DOMAIN run_subscriptions THEN run_subscriptions[r] ELSE {}
Subscriptions(c) == IF c \in DOMAIN connection_metadata THEN connection_metadata[c] ELSE {}

\* no handler is waiting for websockets.connect
Quiet == \A c \in Clients : routes[c].pc # "connecting"

\* the endpoint of c ended and its disconnect_client returned
Left(c) == routes[c].pc = "closed" /\ routes[c].returned

\* C21: between the manager's operations the two subscription indexes
\* agree: c is in run_subscriptions[r] exactly when r is in c's metadata
\* subscriptions, every subscribed c is an active connection, no run is
\* kept with an empty subscriber set, and a connection whose
\* disconnect_client returned is in no subscriber set.
C21_IndexesAgree ==
    Quiet =>
        /\ \A c \in Clients, r \in StreamRuns : c \in Subscribers(r) <=> r \in Subscriptions(c)
        /\ \A r \in StreamRuns : Subscribers(r) \subseteq active_connections
        /\ \A r \in DOMAIN run_subscriptions : run_subscriptions[r] # {}
        /\ \A c \in Clients : Left(c) => \A r \in StreamRuns : c \notin Subscribers(r)

\* a connection that was dropped, subscribed to its run and whose endpoint
\* ended is still a subscriber of the run
C21_Witness ==
    \E c \in Clients, r \in StreamRuns :
        /\ Quiet
        /\ Left(c)
        /\ c \in Subscribers(r)
        /\ c \notin active_connections

\* the backend websockets of run r that are open and forwarded from
Streams(r) == {w \in DOMAIN backend_sockets : backend_sockets[w].run = r /\ Forwarding(w)}

\* C30: under any interleaving the manager has at most one open backend
\* websocket with a forwarding task per run, keeps a backend connection
\* only for a run with a subscriber, and hands each frame of a run's
\* stream to a subscriber at most once.
C30_OneStreamPerRun ==
    /\ \A r \in StreamRuns : Cardinality(Streams(r)) <= 1
    /\ \A r \in DOMAIN backend_connections : Subscribers(r) # {}
    /\ \A k \in DOMAIN delivered : delivered[k] <= 1

\* two connections subscribed to one run while its first backend
\* websocket was being opened: two websockets are forwarded from, and a
\* subscriber got the same frame from each
C30_Witness ==
    \E r \in StreamRuns, c \in Clients :
        /\ Cardinality(Streams(r)) = 2
        /\ Cardinality(Subscribers(r)) = 2
        /\ delivered[<<c, r, 1>>] = 2

\* ------------------------------------------------------------------------
\* DataTransformer.decimate_data (SpecDecimate)
\* ------------------------------------------------------------------------

IntMax(a, b) == IF a >= b THEN a ELSE b

\* the bars kept by range(0, len(bars), stride)
Sampled(bars, stride) ==
    [k \in 1..((Len(bars) + stride - 1) \div stride) |-> bars[(k - 1) * stride + 1]]

\* decimate_data: the decimated bars and the stride used
DecimateData(bars, target_points) ==
    IF Len(bars) <= target_points THEN <<bars, 1>>
    ELSE LET stride == IntMax(1, Len(bars) \div target_points)
             decimated_bars == Sampled(bars, stride)
         IN  <<IF /\ Len(bars) > 0
                  /\ (Len(bars) - 1) % stride # 0
                  /\ Len(decimated_bars) < target_points
               THEN Append(decimated_bars, bars[Len(bars)])
               ELSE decimated_bars,
               stride>>

\* a chart request's bars, told apart by their timestamps
BarData(n) == [i \in 1..n |-> [timestamp |-> i]]

InitDecimate ==
    /\ layout = "stub"
    /\ trades_files = <<>>
    /\ tbbo_files = <<>>
    /\ symbology = None
    /\ pandas_lenient = TRUE
    /\ disk = [k \in {} |-> None]
    /\ manifest_file = None
    /\ catalog = None
    /\ now = 0
    /\ last = NoCall
    /\ writer = Idle
    /\ seen = None
    /\ NoBacktests
    /\ unique_hash = TRUE
    /\ NoSockets
    /\ chart_cache = [enabled |-> FALSE, store |-> EmptyDict]
    /\ md5_hex = EmptyDict
    /\ \E n \in 0..MaxBars, target_points \in 1..MaxTarget :
           chart_request = Some([bars |-> BarData(n), target_points |-> target_points])

Decimate ==
    /\ last.op = "none"
    /\ LET args == chart_request[1]
       IN  last' = [op |-> "decimate_data", args |-> args, outcome |-> "ok",
                    ret |-> DecimateData(args.bars, args.target_points),
                    read_ticks |-> FALSE]
    /\ UNCHANGED <<inputs, disk, manifest_file, catalog, now, readers, backtests, bff, chart>>

NextDecimate == Decimate

SpecDecimate == InitDecimate /\ [][NextDecimate]_vars

\* s is a subsequence of bars in the order of bars
Subsequence(s, bars) ==
    /\ \A i \in 1..Len(s) : \E j \in 1..Len(bars) : s[i] = bars[j]
    /\ \A i \in 1..(Len(s) - 1) : s[i].timestamp < s[i + 1].timestamp

\* C22: decimate_data returns at most target_points bars, in the order of
\* the input and taken from it, the first of them being the first input bar.
C22_AtMostTarget ==
    last.op = "decimate_data" =>
        LET bars == last.args.bars
            out == last.ret[1]
        IN  /\ Len(out) <= last.args.target_points
            /\ Subsequence(out, bars)
            /\ Len(bars) > 0 => Len(out) > 0 /\ out[1] = bars[1]

\* five bars decimated to three points come back as five
C22_Witness ==
    /\ last.op = "decimate_data"
    /\ Len(last.args.bars) = 5
    /\ last.args.target_points = 3
    /\ Len(last.ret[1]) = 5
    /\ last.ret[2] = 1

\* ------------------------------------------------------------------------
\* CacheService, chart data (SpecCache)
\*
\* A text is the sequence of its characters.  An MD5 digest is a text of
\* DigestLen hexadecimal digits; which digest a key text has is fixed at
\* the start, two key texts having different digests.
\* ------------------------------------------------------------------------

HexDigits == {"a", "b"}
Digests == [1..DigestLen -> HexDigits]

\* the symbols and timeframes of the chart requests
ChartSymbols == {<<"A", "A", "P", "L">>, <<"a", "b">>}
ChartTimeframes == {"1D", "1m"}

\* f"{symbol}:{timeframe}:{from_date}:{to_date}:{target_points}:{rth_only}",
\* the dates, target_points and rth_only being those of every request here
KeyData == [symbol : ChartSymbols, timeframe : ChartTimeframes]

\* generate_chart_cache_key
Prefix == <<"c", "h", "a", "r", "t", ":">>
GenerateChartCacheKey(symbol, timeframe) ==
    Prefix \o md5_hex[[symbol |-> symbol, timeframe |-> timeframe]]

\* text has pattern in it
Contains(text, pattern) ==
    \E i \in 0..(Len(text) - Len(pattern)) : SubSeq(text, i + 1, i + Len(pattern)) = pattern

\* redis KEYS "chart:*{symbol}*"
KeysMatching(store, symbol) ==
    {k \in DOMAIN store :
        /\ Len(k) >= Len(Prefix)
        /\ SubSeq(k, 1, Len(Prefix)) = Prefix
        /\ Contains(SubSeq(k, Len(Prefix) + 1, Len(k)), symbol)}

\* what a cache call gave: op(args) returned ret; outcome "error" when the
\* Redis client raised
CacheCall(op, args, ret, outcome) ==
    last' = [op |-> op, args |-> args, outcome |-> outcome, ret |-> ret, read_ticks |-> FALSE]

beside_cache == <<inputs, disk, manifest_file, catalog, now, readers, backtests, bff,
                  chart_request, md5_hex>>

\* set_chart_data(cache_key, data): setex of data.json()
SetChartData(kd, down) ==
    LET cache_key == GenerateChartCacheKey(kd.symbol, kd.timeframe)
        serialized_data == JsonDumps([symbol |-> kd.symbol, timeframe |-> kd.timeframe,
                                      cache_hit |-> FALSE])
        stored == chart_cache.enabled /\ ~down
    IN  /\ chart_cache' = IF stored
                          THEN [chart_cache EXCEPT !.store = DictSet(@, cache_key, serialized_data)]
                          ELSE chart_cache
        /\ CacheCall("set_chart_data", [cache_key |-> cache_key], stored,
                     IF chart_cache.enabled /\ down THEN "error" ELSE "ok")
        /\ UNCHANGED beside_cache

\* get_chart_data(cache_key): the cached response, or None
ChartData(cache, cache_key) ==
    IF cache.enabled /\ cache_key \in DOMAIN cache.store
    THEN Some(JsonLoads(cache.store[cache_key])) ELSE None

GetChartData(kd, down) ==
    LET cache_key == GenerateChartCacheKey(kd.symbol, kd.timeframe)
    IN  /\ CacheCall("get_chart_data", [cache_key |-> cache_key],
                     IF down THEN None ELSE ChartData(chart_cache, cache_key),
                     IF chart_cache.enabled /\ down THEN "error" ELSE "ok")
        /\ UNCHANGED <<chart_cache, beside_cache>>

\* invalidate_chart_data(symbol): the number of keys deleted
InvalidateChartData(symbol, down) ==
    LET keys == KeysMatching(chart_cache.store, symbol)
        deleted == chart_cache.enabled /\ ~down
    IN  /\ chart_cache' = IF deleted
                          THEN [chart_cache EXCEPT !.store = [k \in DOMAIN @ \ keys |-> @[k]]]
                          ELSE chart_cache
        /\ CacheCall("invalidate_chart_data", [symbol |-> symbol],
                     IF deleted THEN Cardinality(keys) ELSE 0,
                     IF chart_cache.enabled /\ down THEN "error" ELSE "ok")
        /\ UNCHANGED beside_cache

\* the time to live of a key runs out
Expire(cache_key) ==
    /\ cache_key \in DOMAIN chart_cache.store
    /\ chart_cache' = [chart_cache EXCEPT !.store = DictDel(@, cache_key)]
    /\ UNCHANGED <<last, beside_cache>>

InitCache ==
    /\ layout = "stub"
    /\ trades_files = <<>>
    /\ tbbo_files = <<>>
    /\ symbology = None
    /\ pandas_lenient = TRUE
    /\ disk = [k \in {} |-> None]
    /\ manifest_file = None
    /\ catalog = None
    /\ now = 0
    /\ last = NoCall
    /\ writer = Idle
    /\ seen = None
    /\ NoBacktests
    /\ unique_hash = TRUE
    /\ NoSockets
    /\ chart_request = None
    /\ chart_cache \in [enabled : BOOLEAN, store : {EmptyDict}]
    /\ md5_hex \in {f \in [KeyData -> Digests] : \A a \in KeyData, b \in KeyData : f[a] = f[b] => a = b}

NextCache ==
    \/ \E kd \in KeyData, down \in BOOLEAN :
           SetChartData(kd, down) \/ GetChartData(kd, down) \/ InvalidateChartData(kd.symbol, down)
    \/ \E k \in DOMAIN chart_cache.store : Expire(k)

SpecCache == InitCache /\ [][NextCache]_vars

\* the keys of the requests for a symbol
KeysOf(symbol) == {GenerateChartCacheKey(symbol, tf) : tf \in ChartTimeframes}

\* C23: once invalidate_chart_data(symbol) has returned without a Redis
\* error, no entry stored under a key generated for that symbol is left,
\* so get_chart_data for such a key is a miss.
C23_InvalidateRemoves ==
    (chart_cache.enabled /\ last.op = "invalidate_chart_data" /\ last.outcome = "ok") =>
        \A k \in KeysOf(last.args.symbol) : ChartData(chart_cache, k) = None

\* AAPL was invalidated, nothing was deleted, and an entry stored for AAPL
\* is still a hit
C23_Witness ==
    /\ chart_cache.enabled
    /\ last.op = "invalidate_chart_data"
    /\ last.outcome = "ok"
    /\ last.args.symbol = <<"A", "A", "P", "L">>
    /\ last.ret = 0
    /\ \E k \in KeysOf(last.args.symbol) : ChartData(chart_cache, k) # None

\* ------------------------------------------------------------------------
\* Tick files that share a minute (SpecFiles)
\*
\* The trade file of day 0 and the trade file of the reference day each
\* hold one trade of minute MinutesPerDay, and so do the two quote files,
\* the first of them holding one or two quotes.  A row's "at" is the place
\* of its ts_event among the ticks of the minute.
\* ------------------------------------------------------------------------
SharedMinute == MinutesPerDay

TradeAt(at, price, size) ==
    [ts |-> SharedMinute, at |-> at, price |-> price, size |-> size, inst |-> InstId]
QuoteAt(at, bid_px) ==
    [ts |-> SharedMinute, at |-> at, bid_px |-> bid_px, ask_px |-> Num(MaxPrice), inst |-> InstId]

InitFiles ==
    /\ layout = "dirs"
    /\ \E p1 \in Prices, p2 \in Prices, z1 \in TradeSizes, z2 \in TradeSizes, at \in {1, 2} :
           trades_files = <<File(0, <<TradeAt(at, p1, z1)>>), File(1, <<TradeAt(3 - at, p2, z2)>>)>>
    /\ \E b1 \in Prices, b2 \in Prices, b3 \in Prices, two \in BOOLEAN, at \in {0, 3} :
           tbbo_files = <<File(0, IF two THEN <<QuoteAt(1, b1), QuoteAt(2, b2)>>
                                         ELSE <<QuoteAt(1, b1)>>),
                          File(1, <<QuoteAt(at, b3)>>)>>
    /\ symbology = Some(InstId)
    /\ pandas_lenient = TRUE
    /\ InitState

FilesCall ==
    \E force \in BOOLEAN : DeriveBars(force, None, None, "1Min", "parquet", FALSE, FALSE)

NextFiles == FilesCall

SpecFiles == InitFiles /\ [][NextFiles]_vars

\* the rows of S in the order of their ts_event
RECURSIVE ByTime(_)
ByTime(S) ==
    IF S = {} THEN <<>>
    ELSE LET r == CHOOSE x \in S : \A y \in S : x.at <= y.at
         IN  <<r>> \o ByTime(S \ {r})

\* all ticks of minute m in the files, in the order of their ts_event
Union(files, m) ==
    ByTime({r \in UNION {Range(files[i].rows) : i \in 1..Len(files)} : r.ts = m})

\* the consolidated trade and quote values of the call
TradesMin == ConsolidateTrades(DeriveTradesMinutes(trades_files, InstId))
TbboMin == ConsolidateTbbo(DeriveTbboMinutes(tbbo_files, InstId))

\* the values of minute m computed from all its ticks together
FromUnion(m) ==
    LET tr == Union(trades_files, m)
        px == Map(tr, LAMBDA r : r.price)
        v == SeqSumInt(Map(tr, LAMBDA r : r.size))
        mid == Map(Union(tbbo_files, m), Mid)
    IN  [o |-> px[1], h |-> Max(px), l |-> Min(px), c |-> px[Len(px)], v |-> v,
         vw |-> RDiv(SeqSumRat(Map(tr, LAMBDA r : RScale(r.price, r.size))), v),
         mid_first |-> mid[1], mid_mean |-> Mean(mid)]

\* C24: when two trade files and two quote files hold ticks of one minute,
\* the consolidated values of the minute are those of all its ticks taken
\* together in time order: open the earliest price, close the latest,
\* high and low the extremes, volume and price-volume the sums, mid_first
\* the earliest quote's mid and mid_mean the mean over all its quotes.
C24_UnionOfTicks ==
    Derived1Min =>
        LET u == FromUnion(SharedMinute)
            t == Lookup(TradesMin, SharedMinute)
            q == Lookup(TbboMin, SharedMinute)
        IN  /\ Len(t) = 1 /\ Len(q) = 1
            /\ t[1].o = u.o /\ t[1].h = u.h /\ t[1].l = u.l /\ t[1].c = u.c
            /\ t[1].v = u.v /\ t[1].vw = u.vw
            /\ q[1].mid_first = u.mid_first /\ q[1].mid_mean = u.mid_mean

\* the first quote file holds two quotes of the minute and the second one,
\* and the consolidated mid_mean is the mean of the two files' means
C24_Witness ==
    /\ Derived1Min
    /\ Len(tbbo_files[1].rows) = 2
    /\ Lookup(TbboMin, SharedMinute)[1].mid_mean # FromUnion(SharedMinute).mid_mean
    /\ Lookup(TbboMin, SharedMinute)[1].mid_mean =
           Mean(<<Mean(Map(tbbo_files[1].rows, Mid)), Mid(tbbo_files[2].rows[1])>>)

\* ------------------------------------------------------------------------
\* Ticks with a missing price (SpecMissing)
\*
\* One trade file holding two trades of one minute and one quote file
\* holding two quotes of it; a price, a bid or an ask may be missing.
\* ------------------------------------------------------------------------
MaybePrices == Prices \cup {NaN}

InitMissing ==
    /\ layout = "dirs"
    /\ \E p1 \in MaybePrices, p2 \in MaybePrices, z1 \in TradeSizes, z2 \in TradeSizes :
           trades_files = <<File(1, <<TradeAt(1, p1, z1), TradeAt(2, p2, z2)>>)>>
    /\ \E b1 \in MaybePrices, b2 \in MaybePrices, a1 \in {NaN, Num(MaxPrice)}, a2 \in {NaN, Num(MaxPrice)} :
           tbbo_files = <<File(1, <<[QuoteAt(1, b1) EXCEPT !.ask_px = a1],
                                    [QuoteAt(2, b2) EXCEPT !.ask_px = a2]>>)>>
    /\ symbology = Some(InstId)
    /\ pandas_lenient = TRUE
    /\ InitState

MissingCall ==
    \E force \in BOOLEAN : DeriveBars(force, None, None, "1Min", "parquet", FALSE, FALSE)

NextMissing == MissingCall

SpecMissing == InitMissing /\ [][NextMissing]_vars

\* the files without the rows that miss a value
Kept(files, Whole(_)) ==
    [i \in 1..Len(files) |-> [files[i] EXCEPT !.rows = SelectSeq(@, Whole)]]
Priced(r) == ~IsNaN(r.price)
Quoted(r) == ~IsNaN(r.bid_px) /\ ~IsNaN(r.ask_px)

\* the bars a 1Min derivation writes for the given files
BarsOf(trades, tbbo) ==
    Finalize(Resample(MinuteBars(trades, tbbo, InstId, FALSE, FALSE, None, None), "1Min"),
             Symbol, "1Min")

\* C25: the bars written are those of the trade rows that have a price and
\* of the quote rows that have both bid and ask: a row missing its price
\* adds nothing to volume, trade count or price-volume (nor to vwap), and
\* a quote missing a side adds nothing to mid_first or mid_mean.
C25_MissingDropped ==
    Derived1Min =>
        /\ Written = BarsOf(Kept(trades_files, Priced), Kept(tbbo_files, Quoted))
        /\ TbboMin = ConsolidateTbbo(DeriveTbboMinutes(Kept(tbbo_files, Quoted), InstId))

\* the first trade has no price: its size is in the bar's volume and
\* lowers the vwap below the price of the only priced trade
C25_Witness ==
    /\ Derived1Min
    /\ IsNaN(trades_files[1].rows[1].price)
    /\ ~IsNaN(trades_files[1].rows[2].price)
    /\ Len(Written) = 1
    /\ Written[1].v = trades_files[1].rows[1].size + trades_files[1].rows[2].size
    /\ Written[1].n = 1
    /\ Written[1].vw # trades_files[1].rows[2].price

\* ------------------------------------------------------------------------
\* The manifest's output hashes and the files on disk (Spec)
\* ------------------------------------------------------------------------
\* the output_hashes of the stored manifest (none when there is no
\* manifest, or when it has no such entry)
OutputHashes ==
    IF manifest_file = None \/ ~Parses(manifest_file[1]) THEN EmptyDict
    ELSE Get(JsonLoads(manifest_file[1]), "output_hashes", EmptyDict)

\* C26: after any sequence of derivations, every entry of the stored
\* manifest's output_hashes is the SHA-256 of the file of that name now on
\* disk.
C26_HashesOfDisk ==
    \A k \in DOMAIN OutputHashes : Exists(disk, k) /\ OutputHashes[k] = Sha256(disk[k])

\* a derivation without force found the manifest and returned it, after
\* writing a bar file that the manifest's hash no longer fits
C26_Witness ==
    /\ Derived
    /\ ~last.args.force
    /\ last.ret = Some(JsonLoads(manifest_file[1]))
    /\ LET k == OutPath(last.args.tf, last.args.out_format)
       IN  /\ k \in DOMAIN OutputHashes
           /\ OutputHashes[k] # Sha256(disk[k])

\* ------------------------------------------------------------------------
\* Gap fill against no gap fill (SpecBars)
\* ------------------------------------------------------------------------
\* the bars the call would have written with fill_gaps=False
WithoutFill ==
    LET a == last.args
    IN  Finalize(Resample(MinuteBars(SelectFiles(trades_files, Year, a.from_date, a.to_date),
                                     SelectFiles(tbbo_files, Year, a.from_date, a.to_date),
                                     InstId, FALSE, a.rth_only, a.from_date, a.to_date),
                          a.tf),
                 Symbol, a.tf)

\* bar r is among rows with its time, prices, volume and provider
Emitted(r, rows) ==
    \E i \in 1..Len(rows) :
        /\ rows[i].t = r.t
        /\ rows[i].o = r.o /\ rows[i].h = r.h /\ rows[i].l = r.l /\ rows[i].c = r.c
        /\ rows[i].v = r.v
        /\ rows[i].provider = r.provider

\* C27: a derivation with fill_gaps writes every bar that the same
\* derivation without fill_gaps writes, unchanged, bars outside the
\* from_date/to_date grid included, so the total volume is the same.
C27_FillOnlyAdds ==
    (Derived /\ last.args.fill_gaps) =>
        LET written == Written
            plain == WithoutFill
        IN  /\ \A i \in 1..Len(plain) : Emitted(plain[i], written)
            /\ Volumes(written) = Volumes(plain)

\* a 1Min derivation with fill_gaps and a to_date: the bar of a tick after
\* to_date 23:59, written without fill_gaps, is not written
C27_Witness ==
    /\ Derived1Min
    /\ last.args.fill_gaps
    /\ last.args.to_date # None
    /\ LET written == Written
           plain == WithoutFill
       IN  \E i \in 1..Len(plain) :
               /\ plain[i].t > GridEnd(plain, last.args.to_date)
               /\ plain[i].v > 0
               /\ ~Emitted(plain[i], written)
               /\ Volumes(written) < Volumes(plain)

\* ------------------------------------------------------------------------
\* Retention beside the job (SpecStore)
\*
\* The catalog holds the row of an earlier run that is DONE, with its five
\* files on disk.  run_backtest_and_persist is called from the command
\* line, and retention_main is called with keep_latest 0 or 1 and with or
\* without max_age_days, in any interleaving: the job and retention are
\* processes of their own.  rmtree and the DELETE may raise.
\* ------------------------------------------------------------------------
Earlier == <<"cli", 0>>
DoneRow(r, created_at) ==
    [status |-> "DONE", input_hash |-> None, idempotency_key |-> None,
     created_at |-> created_at,
     run_manifest_path |-> PathOf(r, "run-manifest.json"),
     metrics_path |-> PathOf(r, "metrics.json"),
     equity_path |-> PathOf(r, "equity.parquet"),
     orders_path |-> PathOf(r, "orders.parquet"),
     fills_path |-> PathOf(r, "fills.parquet")]

\* ORDER BY datetime(created_at) DESC: the rows newest first, those of one
\* instant in any order
NewestFirst ==
    {o \in [1..Cardinality(DOMAIN runs) -> DOMAIN runs] :
        /\ \A i \in DOMAIN o, j \in DOMAIN o : i # j => o[i] # o[j]
        /\ \A i \in DOMAIN o, j \in DOMAIN o :
               i < j => runs[o[i]].created_at >= runs[o[j]].created_at}

\* select_candidates: the first keep_latest rows are kept, and with
\* max_age_days (0: none given) the rows created after the cutoff
Candidates(rows, keep_latest, max_age_days) ==
    LET kept == {rows[i] : i \in 1..IntMax(0, IF keep_latest < Len(rows) THEN keep_latest
                                                                         ELSE Len(rows))}
        cutoff == now - max_age_days
    IN  SelectSeq(rows, LAMBDA r : /\ r \notin kept
                                   /\ ~(max_age_days > 0 /\ runs[r].created_at > cutoff))

\* retention_main: without --apply, or without candidates, nothing is
\* deleted
RetentionMain(keep_latest, max_age_days, apply) ==
    /\ retention = NoPass
    /\ \E rows \in NewestFirst :
           retention' = IF apply THEN [cands |-> Candidates(rows, keep_latest, max_age_days),
                                      removed |-> None]
                        ELSE retention
    /\ UNCHANGED <<derivation, runs, idemp_cache, calls, threads, jobs, unique_hash,
                   artifacts, progress>>

\* apply_deletions, the directory of the next candidate: rmtree removes
\* it, or raises with some of its files left and the candidate is passed
\* over
RemoveTree ==
    /\ retention.cands # <<>> /\ retention.removed = None
    /\ LET r == Head(retention.cands)
       IN  IF r \notin DOMAIN artifacts
           THEN /\ retention' = [cands |-> Tail(retention.cands), removed |-> Some(r)]
                /\ UNCHANGED artifacts
           ELSE \/ /\ artifacts' = DictDel(artifacts, r)
                   /\ retention' = [cands |-> Tail(retention.cands), removed |-> Some(r)]
                \/ \E left \in SUBSET artifacts[r] :
                       /\ artifacts' = Write(artifacts, r, left)
                       /\ retention' = [cands |-> Tail(retention.cands), removed |-> None]
    /\ UNCHANGED <<derivation, runs, idemp_cache, calls, threads, jobs, unique_hash, progress>>

\* apply_deletions, the row of the candidate whose directory is gone: the
\* DELETE removes it, or raises and is passed over
DeleteRows ==
    /\ retention.removed # None
    /\ \E ok \in BOOLEAN :
           runs' = IF ok THEN DictDel(runs, retention.removed[1]) ELSE runs
    /\ retention' = [retention EXCEPT !.removed = None]
    /\ UNCHANGED <<derivation, idemp_cache, calls, threads, jobs, unique_hash,
                   artifacts, progress>>

InitStore ==
    /\ layout = "stub"
    /\ trades_files = <<>>
    /\ tbbo_files = <<>>
    /\ symbology = None
    /\ pandas_lenient = TRUE
    /\ disk = [k \in {} |-> None]
    /\ manifest_file = None
    /\ catalog = None
    /\ now = 0
    /\ last = NoCall
    /\ writer = Idle
    /\ seen = None
    /\ runs = Write(EmptyDict, Earlier, DoneRow(Earlier, 0))
    /\ idemp_cache = <<>>
    /\ calls = [c \in 1..MaxCalls |-> NewCall]
    /\ threads = {}
    /\ jobs = {}
    /\ artifacts = Write(EmptyDict, Earlier, FirstFiles(Len(ArtifactFiles)))
    /\ progress = [r \in RunIds |-> "new"]
    /\ retention = NoPass
    /\ unique_hash = FALSE
    /\ NoServices

Job ==
    \E r \in RunIds : \/ SetRunning(r) \/ RunnerExits(r) \/ WriteArtifacts(r)
                      \/ SetDone(r) \/ UpsertRunMetrics(r)
Retention ==
    \/ \E keep_latest \in 0..1, max_age_days \in 0..1, apply \in BOOLEAN :
           RetentionMain(keep_latest, max_age_days, apply)
    \/ RemoveTree
    \/ DeleteRows

NextStore == CommandLine \/ Job \/ Retention \/ Tick

SpecStore == InitStore /\ [][NextStore]_vars

\* the paths a row records, and whether a path is a file on disk
RecordedPaths(row) ==
    {row[k] : k \in DOMAIN row \cap {"run_manifest_path", "metrics_path", "equity_path",
                                     "orders_path", "fills_path"}}
Stored(path) == path[1] \in DOMAIN artifacts /\ path[2] \in artifacts[path[1]]
Dones == {r \in DOMAIN runs : runs[r].status = "DONE"}

\* C29: in every state the five files of a run whose row is DONE are on
\* disk at the paths the row records.
C29_DoneHasArtifacts ==
    \A r \in Dones : \A path \in RecordedPaths(runs[r]) : Stored(path)

\* the same for the states no retention pass is under way in
C29_RetentionLeaves ==
    retention = NoPass => C29_DoneHasArtifacts

\* retention is over, and the row of the earlier run is DONE with its
\* directory removed: the DELETE raised
C29_Witness ==
    /\ retention = NoPass
    /\ Earlier \in Dones
    /\ Earlier \notin DOMAIN artifacts

====
